---- MODULE Spec2Model ----
(***************************************************************************)
(* The file-transfer pipeline of src-tauri/src/file_transfer.rs: the       *)
(* command worker, the retrying download loop, the download metrics and    *)
(* the event channel.                                                      *)
(*                                                                         *)
(* Left out of a DownloadAttemptSnapshot: duration_ms and timestamp, two   *)
(* wall-clock readings that no branch of the code looks at.                *)
(***************************************************************************)
EXTENDS Integers, Sequences, FiniteSets, TLC

(***************************************************************************)
(* Program constants.                                                      *)
(***************************************************************************)
MAX_DOWNLOAD_ATTEMPTS == 3
BASE_BACKOFF_MS == 250
MAX_BACKOFF_MS == 1500
\* the literal of `while self.recent_attempts.len() > 20`
MAX_RECENT_ATTEMPTS == 20
\* mpsc::channel(100) for commands and for events
CMD_CAPACITY == 100
EVENT_CAPACITY == 100
\* the literal of `(attempt - 1).min(4)`
MAX_SHIFT == 4

(***************************************************************************)
(* Bounds of the model.                                                    *)
(***************************************************************************)
\* commands submitted in one behaviour of Spec
MaxCommands == 2
\* the largest `max` handed to drain_events
MaxDrain == 2
\* record_attempt calls in one behaviour of SpecMetrics
MaxRecords == 23
\* download commands submitted in one behaviour of SpecFlood
MaxFlood == 27
\* the low limbs 0..MaxAttemptArg of the attempt numbers given to backoff_delay
MaxAttemptArg == 40
\* the latest system time of SpecRelay, in seconds
MaxClock == 1
\* the largest max_age_secs handed to prune_stale
MaxAge == 1
\* the most drain_events calls of SpecDrain
MaxDrainCalls == 2
\* the most commands the callers of SpecSubmit send
MaxSubmits == 101
MaxRelayCalls == 4
MaxEnvLen == 4
MaxLiveCommands == 2

(***************************************************************************)
(* Machine integers.  TLC's integers are 32 bits wide, so a u64 is kept as *)
(* four 16-bit limbs and a u32 as two, most significant first.             *)
(***************************************************************************)
Limb == 2^16
LimbMax == Limb - 1

Min(a, b) == IF a <= b THEN a ELSE b

U64_ZERO == <<0, 0, 0, 0>>
U64_MAX == <<LimbMax, LimbMax, LimbMax, LimbMax>>

\* x + 1 for x < u64::MAX, carrying through the limbs
U64Inc(x) ==
    IF x[4] < LimbMax THEN [x EXCEPT ![4] = @ + 1]
    ELSE IF x[3] < LimbMax THEN [x EXCEPT ![4] = 0, ![3] = @ + 1]
    ELSE IF x[2] < LimbMax THEN [x EXCEPT ![4] = 0, ![3] = 0, ![2] = @ + 1]
    ELSE [x EXCEPT ![4] = 0, ![3] = 0, ![2] = 0, ![1] = @ + 1]

\* x + n for an n that does not carry out of the low limb
U64PlusSmall(x, n) == [x EXCEPT ![4] = @ + n]

\* u64::saturating_add(x, 1)
saturating_add_1_wraps(x) == IF x = U64_MAX THEN U64_ZERO ELSE U64Inc(x)

saturating_add_1(x) == IF x = U64_MAX THEN U64_MAX ELSE U64Inc(x)

\* a u32 from a small natural
U32(n) == <<0, n>>

\* attempt <= 1 on a u32
U32Le1(a) == a[1] = 0 /\ a[2] <= 1

\* a - 1 on a u32, as the release build computes it (the debug build panics on 0)
U32Dec(a) ==
    IF a[2] > 0 THEN <<a[1], a[2] - 1>>
    ELSE IF a[1] > 0 THEN <<a[1] - 1, LimbMax>>
    ELSE <<LimbMax, LimbMax>>

\* u32::min(a, n) for a small n, as a natural
U32MinSmall(a, n) == IF a[1] > 0 \/ a[2] > n THEN n ELSE a[2]

(***************************************************************************)
(* backoff_delay.  The result is the delay in milliseconds, with `trap`    *)
(* telling whether the evaluation ran `attempt - 1` on 0 (a panic in the   *)
(* debug build, a wrap to u32::MAX in the release build).  shift is at     *)
(* most 4, so the multiplier is at most 16 and the product at most 4000:   *)
(* saturating_mul never saturates and is the plain product.                *)
(***************************************************************************)
BackoffFrom(attempt, max_shift, cap) ==
    LET shift == U32MinSmall(U32Dec(attempt), max_shift)
        multiplier == 2^shift
        delay == BASE_BACKOFF_MS * multiplier
    IN  [ms |-> Min(delay, cap), trap |-> (attempt = <<0, 0>>)]

backoff_delay_eq1(attempt) ==
    IF attempt = <<0, 1>> THEN [ms |-> 0, trap |-> FALSE]
    ELSE BackoffFrom(attempt, MAX_SHIFT, MAX_BACKOFF_MS)

backoff_delay(attempt) ==
    IF U32Le1(attempt) THEN [ms |-> 0, trap |-> FALSE]
    ELSE BackoffFrom(attempt, MAX_SHIFT, MAX_BACKOFF_MS)

(***************************************************************************)
(* The values the pipeline handles.                                        *)
(***************************************************************************)
Data == {"d1"}
Hashes == {"h1", "h2"}
Names == {"n1"}
NoFile == "none"
\* storage.get(file_hash) is None: the map holds no (name, data) pair there
NoEntry == <<>>

\* calculate_file_hash: the SHA-256 digest of the bytes, in lowercase hex
calculate_file_hash(data) == IF data = "d1" THEN "h1" ELSE "h2"

NOT_FOUND == "File not found locally"
WRITE_FAILED == "Failed to write file"
READ_FAILED == "Failed to read file"
DOWNLOAD_FAILED == "Download failed"
NoError == "none"

UploadFile(name) == [kind |-> "UploadFile", file_name |-> name]
DownloadFile(hash) == [kind |-> "DownloadFile", file_hash |-> hash]
GetStoredFiles == [kind |-> "GetStoredFiles"]
NoCommand == [kind |-> "none"]

Commands ==
    {UploadFile(n) : n \in Names} \cup {DownloadFile(h) : h \in Hashes}
        \cup {GetStoredFiles}

AttemptSnapshot(hash, n, status) ==
    [file_hash |-> hash, attempt |-> n,
     max_attempts |-> MAX_DOWNLOAD_ATTEMPTS, status |-> status]

NoSnapshot == [status |-> "none"]

FileUploaded(hash, name) ==
    [type |-> "FileUploaded", file_hash |-> hash, file_name |-> name]
FileDownloaded == [type |-> "FileDownloaded"]
ErrorEvent(prefix, err) == [type |-> "Error", message |-> <<prefix, err>>]
DownloadAttempt(snapshot) == [type |-> "DownloadAttempt", snapshot |-> snapshot]
NoEvent == [type |-> "none"]

(***************************************************************************)
(* DownloadMetrics.                                                        *)
(***************************************************************************)
DefaultMetrics ==
    [total_success |-> U64_ZERO, total_failures |-> U64_ZERO,
     total_retries |-> U64_ZERO, recent_attempts |-> <<>>]

\* record_attempt, the match on the status
RecordCountRetryAsFailure(m, snapshot) ==
    IF snapshot.status = "Success"
    THEN [m EXCEPT !.total_success = saturating_add_1(@)]
    ELSE [m EXCEPT !.total_failures = saturating_add_1(@)]

RecordCount(m, snapshot) ==
    IF snapshot.status = "Retrying"
    THEN [m EXCEPT !.total_retries = saturating_add_1(@)]
    ELSE IF snapshot.status = "Success"
    THEN [m EXCEPT !.total_success = saturating_add_1(@)]
    ELSE [m EXCEPT !.total_failures = saturating_add_1(@)]

\* record_attempt, push_front
RecordPush(m, snapshot) ==
    [m EXCEPT !.recent_attempts = <<snapshot>> \o @]

\* record_attempt, the guard of the eviction loop
RecordOverfull(m) == Len(m.recent_attempts) > MAX_RECENT_ATTEMPTS

\* record_attempt, pop_back
RecordEvictFront(m) == [m EXCEPT !.recent_attempts = Tail(@)]

RecordEvict(m) ==
    [m EXCEPT !.recent_attempts = SubSeq(@, 1, Len(@) - 1)]

\* DownloadMetrics::snapshot: the counters and the deque copied front to back
snapshot(m) ==
    [total_success |-> m.total_success,
     total_failures |-> m.total_failures,
     total_retries |-> m.total_retries,
     recent_attempts |-> [i \in 1..Len(m.recent_attempts) |-> m.recent_attempts[i]]]

(***************************************************************************)
(* The state.                                                              *)
(***************************************************************************)
VARIABLES
    service_alive,  \* the FileTransferService (cmd_tx and event_rx) is not dropped
    cmd_queue,      \* the command channel
    submitted,      \* commands sent so far
    w_pc,           \* where the worker task is
    w_cmd,          \* the command the worker holds
    attempt,        \* download_with_retries: attempt
    last_error,     \* download_with_retries: last_error
    w_result,       \* handle_download_file's result for this attempt
    w_data,         \* the bytes the worker holds (read or looked up)
    cur_snap,       \* the snapshot handed to emit_attempt
    dl_ret,         \* what download_with_retries returned
    w_final,        \* the closing event the worker is about to send
    stored_files,   \* hash -> (name, data), NoFile where there is no entry
    metrics,        \* DownloadMetrics
    metrics_lock,   \* who holds download_metrics
    events,         \* the event channel
    inv,            \* history: the download invocation under way
    rec_log,        \* history: every snapshot given to record_attempt, oldest first
    observed,       \* what download_metrics_snapshot last returned
    observed_at,    \* history: how many snapshots had been recorded by then
    plan,           \* the scripted client's plan (SpecMetrics)
    fail_writes,    \* destination writes that will fail before one succeeds
    bk_attempt,     \* the argument given to backoff_delay (SpecBackoff)
    bk_result,      \* what backoff_delay returned for it
    tries,          \* history: times the worker tried the command in hand
    submit_ret,     \* what upload_file / download_file last returned
    ev_log,         \* history: every event sent so far (where it is kept)
    rx_lock,        \* who holds event_rx
    dr,             \* each drain_events call under way
    drained_log,    \* history: what the drain_events calls returned, in order
    drain_calls,    \* drain_events calls made so far (SpecDrain)
    entries,        \* RelayRegistry: peer_id -> RelayInfo
    clock,          \* the system time, in seconds
    r_last,         \* the last RelayRegistry call and what it returned
    store_lock,     \* who holds stored_files
    rw,             \* the RwLock around the relay entries: writer and readers
    rc,             \* each RelayRegistry call under way (SpecRelayLock)
    committed,      \* history: the entries when the write lock was last free
    bs              \* get_bootstrap_nodes: its inputs and what it returned

vars ==
    <<service_alive, cmd_queue, submitted, w_pc, w_cmd, attempt, last_error,
      w_result, w_data, cur_snap, dl_ret, w_final, stored_files, metrics,
      metrics_lock, events, inv, rec_log, observed, observed_at, plan,
      fail_writes, bk_attempt, bk_result, tries, submit_ret, ev_log, rx_lock,
      dr, drained_log, drain_calls, entries, clock, r_last, store_lock, rw,
      rc, committed, bs>>

worker_vars ==
    <<w_pc, w_cmd, attempt, last_error, w_result, w_data, cur_snap, dl_ret,
      w_final>>
backoff_vars == <<bk_attempt, bk_result>>
client_vars == <<plan, fail_writes>>
reader_vars == <<observed, observed_at>>
drain_vars == <<rx_lock, dr, drained_log, drain_calls>>
relay_vars == <<entries, clock, r_last>>
lock_vars == <<rw, rc, committed>>
transfer_vars_but_bs ==
    <<service_alive, cmd_queue, submitted, worker_vars, stored_files, metrics,
      metrics_lock, events, inv, rec_log, reader_vars, client_vars,
      backoff_vars, tries, submit_ret, ev_log, drain_vars, store_lock>>
transfer_vars == <<transfer_vars_but_bs, bs>>

NoInv == [active |-> FALSE]
NoPlan == [base |-> "fresh", outcomes |-> <<>>]
NoResult == [ms |-> 0, trap |-> FALSE, done |-> FALSE, prev |-> 0, n |-> 0]

StoreEntry(name, data) == <<name, data>>

\* history: the place of a command in the order of the sends, the command an
\* event was sent for
Stamped(cmd, n) == cmd @@ [seq |-> n]
OfCommand(ev, n) == ev @@ [by |-> n]

\* ev_log where the behaviour keeps no log of the events
NoLog == [on |-> FALSE, seq |-> <<>>]
EmptyLog == [on |-> TRUE, seq |-> <<>>]
Logged(log, ev) == IF log.on THEN [log EXCEPT !.seq = Append(@, ev)] ELSE log

\* submit_ret before any submission, and what a submission returns
NoReturn == "none"
CHANNEL_CLOSED == "channel closed"

\* the callers of drain_events, and a caller that is not in a call
Drainers == {1, 2}
NoHolder == 0
IdleDrain == [pc |-> "idle", max |-> 0, got |-> <<>>]

\* the peers of the relay directory, no entry, no call yet
Peers == {"p1", "p2", "p3"}
NoRelay == [peer_id |-> "none"]
NoCall == [op |-> "none"]

\* the RwLock with nobody in it, the tasks that call the registry at the same
\* time, and a task that is not in a call
NoWriter == 0
FreeLock == [writer |-> NoWriter, readers |-> {}]
RelayCallers == {1, 2}
IdleCall ==
    [pc |-> "idle", call |-> NoCall, todo |-> {}, before_count |-> 0,
     calls |-> 0]

\* bs where get_bootstrap_nodes is not looked at
NoBootstrap == [called |-> FALSE]

\* history and callers as they are when the service is built
InitCallers ==
    /\ tries = 0
    /\ submit_ret = NoReturn
    /\ rx_lock = NoHolder
    /\ dr = [d \in Drainers |-> IdleDrain]
    /\ drained_log = <<>>
    /\ drain_calls = 0

\* RelayRegistry::new
InitRelay ==
    /\ entries = [p \in Peers |-> NoRelay]
    /\ clock = 0
    /\ r_last = NoCall
    /\ rw = FreeLock
    /\ rc = [c \in RelayCallers |-> IdleCall]
    /\ committed = [p \in Peers |-> NoRelay]

EmptyStore == [h \in Hashes |-> NoEntry]

\* FileTransferService::new
InitPipeline ==
    /\ service_alive = TRUE
    /\ cmd_queue = <<>>
    /\ submitted = 0
    /\ w_pc = "recv"
    /\ w_cmd = NoCommand
    /\ attempt = 0
    /\ last_error = NoError
    /\ w_result = NoError
    /\ w_data = NoFile
    /\ cur_snap = NoSnapshot
    /\ dl_ret = NoError
    /\ w_final = NoEvent
    /\ stored_files = EmptyStore
    /\ metrics = DefaultMetrics
    /\ metrics_lock = "free"
    /\ events = <<>>
    /\ inv = NoInv
    /\ rec_log = <<>>
    /\ observed = NoSnapshot
    /\ observed_at = 0
    /\ store_lock = "free"
    /\ InitCallers
    /\ InitRelay

Init ==
    /\ InitPipeline
    /\ bs = NoBootstrap
    /\ ev_log = NoLog
    /\ plan = NoPlan
    /\ fail_writes = 0
    /\ bk_attempt = U32(0)
    /\ bk_result = NoResult

(***************************************************************************)
(* The callers of the service.                                             *)
(***************************************************************************)
\* cmd_rx is dropped: the worker task has returned or was cancelled
ReceiverDropped == w_pc \in {"stopped", "aborted"}

\* mpsc::Sender::send on the command channel: Err when the receiver is
\* dropped, and otherwise a wait while the channel is full
SendOutcomeTrySend(queue, dropped) ==
    IF dropped \/ Len(queue) >= CMD_CAPACITY THEN CHANNEL_CLOSED ELSE "ok"

SendOutcome(queue, dropped) ==
    IF dropped THEN CHANNEL_CLOSED
    ELSE IF Len(queue) < CMD_CAPACITY THEN "ok"
    ELSE "wait"

\* cmd_tx.send(..).await.map_err(..) in upload_file and download_file
SendCommand(cmd) ==
    /\ service_alive
    /\ LET r == SendOutcome(cmd_queue, ReceiverDropped) IN
        /\ r # "wait"
        /\ submit_ret' = r
        /\ IF r = "ok"
           THEN /\ cmd_queue' = Append(cmd_queue, Stamped(cmd, submitted + 1))
                /\ submitted' = submitted + 1
           ELSE UNCHANGED <<cmd_queue, submitted>>

\* upload_file, download_file (and a caller sending GetStoredFiles)
Submit ==
    /\ submitted < MaxCommands
    /\ \E cmd \in Commands : SendCommand(cmd)
    /\ UNCHANGED <<service_alive, worker_vars, stored_files, metrics,
                   metrics_lock, events, inv, rec_log, reader_vars, client_vars,
                   backoff_vars,
                   tries, ev_log, drain_vars, relay_vars,
                   store_lock, lock_vars, bs>>

\* the invocation under way, told that its hash has an entry now
InvSees(hash) ==
    IF inv.active /\ inv.file_hash = hash
    THEN [inv EXCEPT !.absent = FALSE]
    ELSE inv

\* store_file_data
StoreFileData ==
    /\ service_alive
    /\ store_lock = "free"
    /\ \E hash \in Hashes, name \in Names, data \in Data :
        /\ stored_files' = [stored_files EXCEPT ![hash] = StoreEntry(name, data)]
        /\ inv' = InvSees(hash)
    /\ UNCHANGED <<service_alive, cmd_queue, submitted, worker_vars, metrics,
                   metrics_lock, events, rec_log, reader_vars, client_vars,
                   backoff_vars,
                   tries, submit_ret, ev_log, drain_vars, relay_vars,
                   store_lock, lock_vars, bs>>

\* drain_events(max): try_recv until max events are taken or the channel is empty
Drained(max) == SubSeq(events, Min(max, Len(events)) + 1, Len(events))

DrainUpTo(maxes) ==
    /\ service_alive
    /\ \E max \in maxes : events' = Drained(max)
    /\ UNCHANGED <<service_alive, cmd_queue, submitted, worker_vars,
                   stored_files, metrics, metrics_lock, inv, rec_log, reader_vars,
                   client_vars, backoff_vars,
                   tries, submit_ret, ev_log, drain_vars, relay_vars,
                   store_lock, lock_vars, bs>>

DrainEvents == DrainUpTo(0..MaxDrain)

\* the FileTransferService is dropped: cmd_tx and event_rx go with it
DropService ==
    /\ service_alive
    /\ service_alive' = FALSE
    /\ UNCHANGED <<cmd_queue, submitted, worker_vars, stored_files, metrics,
                   metrics_lock, events, inv, rec_log, reader_vars, client_vars,
                   backoff_vars,
                   tries, submit_ret, ev_log, drain_vars, relay_vars,
                   store_lock, lock_vars, bs>>

\* download_metrics.lock() in download_metrics_snapshot
SnapshotUnlocked == TRUE

SnapshotReadable == metrics_lock = "free"

\* download_metrics_snapshot
DownloadMetricsSnapshot ==
    /\ service_alive
    /\ SnapshotReadable
    /\ observed' = snapshot(metrics)
    /\ observed_at' = Len(rec_log)
    /\ UNCHANGED <<service_alive, cmd_queue, submitted, worker_vars,
                   stored_files, metrics, metrics_lock, events, inv, rec_log,
                   client_vars, backoff_vars,
                   tries, submit_ret, ev_log, drain_vars, relay_vars,
                   store_lock, lock_vars, bs>>

(***************************************************************************)
(* The worker task, run_file_transfer_service.                             *)
(***************************************************************************)
\* mpsc::Sender::send on the event channel: Err at once when the receiver is
\* dropped, and otherwise a wait until the channel has room
SendEvent(ev) ==
    IF service_alive
    THEN /\ Len(events) < EVENT_CAPACITY
         /\ events' = Append(events, OfCommand(ev, w_cmd.seq))
         /\ ev_log' = Logged(ev_log, OfCommand(ev, w_cmd.seq))
    ELSE UNCHANGED <<events, ev_log>>

\* mpsc::Receiver::recv: the oldest command of the channel
DequeueNewest(queue) ==
    [cmd |-> queue[Len(queue)], rest |-> SubSeq(queue, 1, Len(queue) - 1)]

Dequeue(queue) == [cmd |-> Head(queue), rest |-> Tail(queue)]

NewInv(hash) ==
    [active |-> TRUE, file_hash |-> hash, base |-> metrics,
     absent |-> (stored_files[hash] = NoEntry),
     snaps |-> <<>>, results |-> <<>>, slept |-> <<>>]

\* cmd_rx.recv() and the match on the command
RecvCommand ==
    /\ w_pc = "recv"
    /\ cmd_queue # <<>>
    /\ cmd_queue' = Dequeue(cmd_queue).rest
    /\ tries' = 0
    /\ LET cmd == Dequeue(cmd_queue).cmd IN
        /\ w_cmd' = cmd
        /\ IF cmd.kind = "UploadFile"
           THEN /\ w_pc' = "up_read"
                /\ UNCHANGED <<attempt, last_error, inv>>
           ELSE IF cmd.kind = "DownloadFile"
           THEN /\ w_pc' = "dl_loop"
                /\ attempt' = 0
                /\ last_error' = NoError
                /\ inv' = NewInv(cmd.file_hash)
           ELSE /\ w_pc' = "recv"
                /\ UNCHANGED <<attempt, last_error, inv>>
    /\ UNCHANGED <<service_alive, submitted, w_result, w_data, cur_snap, dl_ret,
                   w_final, stored_files, metrics, metrics_lock, events,
                   rec_log, reader_vars, client_vars, backoff_vars,
                   submit_ret, ev_log, drain_vars, relay_vars,
                   store_lock, lock_vars, bs>>

\* cmd_rx.recv() returns None: every sender is dropped and the channel is empty
WorkerStop ==
    /\ w_pc = "recv"
    /\ cmd_queue = <<>>
    /\ ~service_alive
    /\ w_pc' = "stopped"
    /\ UNCHANGED <<service_alive, cmd_queue, submitted, w_cmd, attempt,
                   last_error, w_result, w_data, cur_snap, dl_ret, w_final,
                   stored_files, metrics, metrics_lock, events, inv, rec_log,
                   reader_vars, client_vars, backoff_vars,
                   tries, submit_ret, ev_log, drain_vars, relay_vars,
                   store_lock, lock_vars, bs>>

\* handle_upload_file: tokio::fs::read
UpRead ==
    /\ w_pc = "up_read"
    /\ tries' = tries + 1
    /\ \E r \in Data \cup {READ_FAILED} :
        IF r = READ_FAILED
        THEN /\ w_final' = ErrorEvent("Upload failed", READ_FAILED)
             /\ w_pc' = "send_final"
             /\ UNCHANGED w_data
        ELSE /\ w_data' = r
             /\ w_pc' = "up_store"
             /\ UNCHANGED w_final
    /\ UNCHANGED <<service_alive, cmd_queue, submitted, w_cmd, attempt,
                   last_error, w_result, cur_snap, dl_ret, stored_files,
                   metrics, metrics_lock, events, inv, rec_log, reader_vars,
                   client_vars, backoff_vars,
                   submit_ret, ev_log, drain_vars, relay_vars,
                   store_lock, lock_vars, bs>>

\* handle_upload_file: calculate_file_hash and files.insert
UpStore ==
    /\ w_pc = "up_store"
    /\ store_lock = "free"
    /\ LET file_hash == calculate_file_hash(w_data) IN
        /\ stored_files' =
              [stored_files EXCEPT ![file_hash] = StoreEntry(w_cmd.file_name, w_data)]
        /\ w_final' = FileUploaded(file_hash, w_cmd.file_name)
    /\ w_pc' = "send_final"
    /\ UNCHANGED <<service_alive, cmd_queue, submitted, w_cmd, attempt,
                   last_error, w_result, w_data, cur_snap, dl_ret, metrics,
                   metrics_lock, events, inv, rec_log, reader_vars, client_vars,
                   backoff_vars,
                   tries, submit_ret, ev_log, drain_vars, relay_vars,
                   store_lock, lock_vars, bs>>

\* where the worker goes after `let _ = event_tx.send(..).await`
AfterSendUnwrap(sent) == IF sent THEN "recv" ELSE "stopped"

AfterSend(sent) == "recv"

\* the worker's event_tx.send of FileUploaded, FileDownloaded or Error
SendFinal ==
    /\ w_pc = "send_final"
    /\ SendEvent(w_final)
    /\ w_pc' = AfterSend(service_alive)
    /\ tries' = 0
    /\ w_cmd' = NoCommand
    /\ w_final' = NoEvent
    /\ w_data' = NoFile
    /\ UNCHANGED <<service_alive, cmd_queue, submitted, attempt, last_error,
                   w_result, cur_snap, dl_ret, stored_files, metrics,
                   metrics_lock, inv, rec_log, reader_vars, client_vars,
                   backoff_vars,
                   submit_ret, drain_vars, relay_vars,
                   store_lock, lock_vars, bs>>

(***************************************************************************)
(* download_with_retries.                                                  *)
(***************************************************************************)
\* attempt += 1
NextAttemptSkips(n) == n + 2

NextAttempt(n) == n + 1

\* whether attempt n is preceded by a sleep
SleepsBeforeNever(n) == FALSE

SleepsBefore(n) == n > 1 /\ backoff_delay(U32(n)).ms > 0

\* the head of the while loop: the test, attempt += 1 and the choice to sleep
DlLoop ==
    /\ w_pc = "dl_loop"
    /\ IF attempt < MAX_DOWNLOAD_ATTEMPTS
       THEN /\ attempt' = NextAttempt(attempt)
            /\ tries' = tries + 1
            /\ w_pc' = IF SleepsBefore(attempt') THEN "dl_sleep" ELSE "dl_lookup"
            /\ UNCHANGED dl_ret
       ELSE /\ dl_ret' = IF last_error = NoError THEN DOWNLOAD_FAILED ELSE last_error
            /\ w_pc' = "dl_ret"
            /\ UNCHANGED <<attempt, tries>>
    /\ UNCHANGED <<service_alive, cmd_queue, submitted, w_cmd, last_error,
                   w_result, w_data, cur_snap, w_final, stored_files, metrics,
                   metrics_lock, events, inv, rec_log, reader_vars, client_vars,
                   backoff_vars,
                   submit_ret, ev_log, drain_vars, relay_vars,
                   store_lock, lock_vars, bs>>

\* sleep(delay).await
DlSleep ==
    /\ w_pc = "dl_sleep"
    /\ inv' = [inv EXCEPT !.slept = Append(@, backoff_delay(U32(attempt)).ms)]
    /\ w_pc' = "dl_lookup"
    /\ UNCHANGED <<service_alive, cmd_queue, submitted, w_cmd, attempt,
                   last_error, w_result, w_data, cur_snap, dl_ret, w_final,
                   stored_files, metrics, metrics_lock, events, rec_log,
                   reader_vars, client_vars, backoff_vars,
                   tries, submit_ret, ev_log, drain_vars, relay_vars,
                   store_lock, lock_vars, bs>>

\* the status of the snapshot of an attempt that failed
FailureStatusAlwaysRetrying(n) == "Retrying"

FailureStatus(n) == IF n >= MAX_DOWNLOAD_ATTEMPTS THEN "Failed" ELSE "Retrying"

\* the match on handle_download_file's result, up to the call of emit_attempt
FinishAttempt(result) ==
    LET status == IF result = "ok" THEN "Success" ELSE FailureStatus(attempt)
        snap == AttemptSnapshot(w_cmd.file_hash, attempt, status)
    IN  /\ w_result' = result
        /\ last_error' = IF result = "ok" THEN last_error ELSE result
        /\ cur_snap' = snap
        /\ inv' = [inv EXCEPT !.snaps = Append(@, snap),
                              !.results = Append(@, result)]
        /\ w_pc' = "emit_lock"

\* the store lock where the block that took the guard closes
GuardOutlivesBlock(holder) == holder

GuardAtBlockEnd(holder) == "free"

\* handle_download_file: files.get(file_hash) under the store lock; `?`
\* leaves the function, and the guard goes with it
DlLookup ==
    /\ w_pc = "dl_lookup"
    /\ store_lock = "free"
    /\ IF stored_files[w_cmd.file_hash] = NoEntry
       THEN /\ FinishAttempt(NOT_FOUND)
            /\ store_lock' = "free"
            /\ UNCHANGED w_data
       ELSE /\ w_data' = stored_files[w_cmd.file_hash][2]
            /\ w_pc' = "dl_write"
            /\ store_lock' = GuardAtBlockEnd("worker")
            /\ UNCHANGED <<w_result, last_error, cur_snap, inv>>
    /\ UNCHANGED <<service_alive, cmd_queue, submitted, w_cmd, attempt, dl_ret,
                   w_final, stored_files, metrics, metrics_lock, events,
                   rec_log, reader_vars, client_vars, backoff_vars,
                   tries, submit_ret, ev_log, drain_vars, relay_vars,
                   lock_vars, bs>>

\* handle_download_file: write_output, which the file system lets succeed or fail
DlWrite ==
    /\ w_pc = "dl_write"
    /\ \E ok \in BOOLEAN : FinishAttempt(IF ok THEN "ok" ELSE WRITE_FAILED)
    /\ store_lock' = "free"
    /\ UNCHANGED <<service_alive, cmd_queue, submitted, w_cmd, attempt, w_data,
                   dl_ret, w_final, stored_files, metrics, metrics_lock, events,
                   rec_log, reader_vars, client_vars, backoff_vars,
                   tries, submit_ret, ev_log, drain_vars, relay_vars,
                   lock_vars, bs>>

\* emit_attempt: download_metrics.lock().await
EmitLockSkipsRecord ==
    /\ w_pc = "emit_lock"
    /\ metrics_lock = "free"
    /\ w_pc' = "emit_send"
    /\ UNCHANGED <<service_alive, cmd_queue, submitted, w_cmd, attempt,
                   last_error, w_result, w_data, cur_snap, dl_ret, w_final,
                   stored_files, metrics, metrics_lock, events, inv, rec_log,
                   reader_vars, client_vars, backoff_vars,
                   tries, submit_ret, ev_log, drain_vars, relay_vars,
                   store_lock, lock_vars, bs>>

EmitLock ==
    /\ w_pc = "emit_lock"
    /\ metrics_lock = "free"
    /\ metrics_lock' = "worker"
    /\ w_pc' = "rec_count"
    /\ UNCHANGED <<service_alive, cmd_queue, submitted, w_cmd, attempt,
                   last_error, w_result, w_data, cur_snap, dl_ret, w_final,
                   stored_files, metrics, events, inv, rec_log, reader_vars,
                   client_vars, backoff_vars,
                   tries, submit_ret, ev_log, drain_vars, relay_vars,
                   store_lock, lock_vars, bs>>

\* record_attempt: the counter
RecCount ==
    /\ w_pc = "rec_count"
    /\ metrics' = RecordCount(metrics, cur_snap)
    /\ rec_log' = Append(rec_log, cur_snap)
    /\ w_pc' = "rec_push"
    /\ UNCHANGED <<service_alive, cmd_queue, submitted, w_cmd, attempt,
                   last_error, w_result, w_data, cur_snap, dl_ret, w_final,
                   stored_files, metrics_lock, events, inv, reader_vars,
                   client_vars, backoff_vars,
                   tries, submit_ret, ev_log, drain_vars, relay_vars,
                   store_lock, lock_vars, bs>>

\* record_attempt: push_front
RecPush ==
    /\ w_pc = "rec_push"
    /\ metrics' = RecordPush(metrics, cur_snap)
    /\ w_pc' = "rec_evict"
    /\ UNCHANGED <<service_alive, cmd_queue, submitted, w_cmd, attempt,
                   last_error, w_result, w_data, cur_snap, dl_ret, w_final,
                   stored_files, metrics_lock, events, inv, rec_log, reader_vars,
                   client_vars, backoff_vars,
                   tries, submit_ret, ev_log, drain_vars, relay_vars,
                   store_lock, lock_vars, bs>>

\* the metrics lock where the block of emit_attempt that took the guard closes
MetricsGuardKept(holder) == holder

MetricsGuardDropped(holder) == "free"

\* record_attempt: one turn of the eviction loop, or its end and the unlock
RecEvict ==
    /\ w_pc = "rec_evict"
    /\ IF RecordOverfull(metrics)
       THEN /\ metrics' = RecordEvict(metrics)
            /\ UNCHANGED <<w_pc, metrics_lock>>
       ELSE /\ metrics_lock' = MetricsGuardDropped("worker")
            /\ w_pc' = "emit_send"
            /\ UNCHANGED metrics
    /\ UNCHANGED <<service_alive, cmd_queue, submitted, w_cmd, attempt,
                   last_error, w_result, w_data, cur_snap, dl_ret, w_final,
                   stored_files, events, inv, rec_log, reader_vars, client_vars,
                   backoff_vars,
                   tries, submit_ret, ev_log, drain_vars, relay_vars,
                   store_lock, lock_vars, bs>>

\* whether download_with_retries returns after the attempt: `return Ok(())`
\* after a success, `return Err(err)` after the last attempt failed
ReturnsOnlyAtMax(result, n) == n >= MAX_DOWNLOAD_ATTEMPTS

ReturnsAfter(result, n) == result = "ok" \/ n >= MAX_DOWNLOAD_ATTEMPTS

\* what it returns then: Ok(()), or Err(err) with the error of this attempt
ReturnValueGeneric(result) == IF result = "ok" THEN "ok" ELSE DOWNLOAD_FAILED

ReturnValue(result) == result

\* emit_attempt: event_tx.send, then the return or the next turn of the loop
EmitSend ==
    /\ w_pc = "emit_send"
    /\ SendEvent(DownloadAttempt(cur_snap))
    /\ IF ReturnsAfter(w_result, attempt)
       THEN /\ dl_ret' = ReturnValue(w_result)
            /\ w_pc' = "dl_ret"
       ELSE /\ w_pc' = "dl_loop"
            /\ UNCHANGED dl_ret
    /\ UNCHANGED <<service_alive, cmd_queue, submitted, w_cmd, attempt,
                   last_error, w_result, w_data, cur_snap, w_final,
                   stored_files, metrics, metrics_lock, inv, rec_log, reader_vars,
                   client_vars, backoff_vars,
                   tries, submit_ret, drain_vars, relay_vars,
                   store_lock, lock_vars, bs>>

\* the event the worker builds from what download_with_retries returned
ClosingEventNotFound(ret) ==
    IF ret = "ok" THEN FileDownloaded
    ELSE IF ret = NOT_FOUND THEN [type |-> "FileNotFound"]
    ELSE ErrorEvent("Download failed", ret)

ClosingEvent(ret) ==
    IF ret = "ok" THEN FileDownloaded ELSE ErrorEvent("Download failed", ret)

\* the worker's match on what download_with_retries returned
DlReturn ==
    /\ w_pc = "dl_ret"
    /\ w_final' = ClosingEvent(dl_ret)
    /\ w_pc' = "send_final"
    /\ inv' = NoInv
    /\ attempt' = 0
    /\ last_error' = NoError
    /\ w_result' = NoError
    /\ cur_snap' = NoSnapshot
    /\ dl_ret' = NoError
    /\ UNCHANGED <<service_alive, cmd_queue, submitted, w_cmd, w_data,
                   stored_files, metrics, metrics_lock, events, rec_log,
                   reader_vars, client_vars, backoff_vars,
                   tries, submit_ret, ev_log, drain_vars, relay_vars,
                   store_lock, lock_vars, bs>>

Worker ==
    \/ RecvCommand
    \/ WorkerStop
    \/ UpRead
    \/ UpStore
    \/ SendFinal
    \/ DlLoop
    \/ DlSleep
    \/ DlLookup
    \/ DlWrite
    \/ EmitLock
    \/ RecCount
    \/ RecPush
    \/ RecEvict
    \/ EmitSend
    \/ DlReturn

Next ==
    \/ Submit
    \/ StoreFileData
    \/ DrainEvents
    \/ DropService
    \/ Worker

Spec == Init /\ [][Next]_vars

(***************************************************************************)
(* SpecBackoff: backoff_delay called on attempt numbers over the u32       *)
(* range, in runs of consecutive numbers from 0, across a limb boundary    *)
(* and up to u32::MAX.                                                     *)
(***************************************************************************)
U32_MAX == <<LimbMax, LimbMax>>

U32Succ(a) == IF a[2] < LimbMax THEN <<a[1], a[2] + 1>> ELSE <<a[1] + 1, 0>>

BackoffStarts ==
    {U32(0), <<0, LimbMax - 3>>, <<LimbMax, LimbMax - MaxAttemptArg>>}

Called(a, prev, n) ==
    LET r == backoff_delay(a)
    IN  [ms |-> r.ms, trap |-> r.trap, done |-> TRUE, prev |-> prev, n |-> n]

InitBackoff ==
    /\ InitPipeline
    /\ bs = NoBootstrap
    /\ ev_log = NoLog
    /\ plan = NoPlan
    /\ fail_writes = 0
    /\ bk_attempt \in BackoffStarts
    /\ bk_result = NoResult

BackoffCall ==
    /\ ~bk_result.done
    /\ bk_result' = Called(bk_attempt, 0, 0)
    /\ UNCHANGED <<service_alive, cmd_queue, submitted, worker_vars,
                   stored_files, metrics, metrics_lock, events, inv, rec_log,
                   reader_vars, client_vars, bk_attempt,
                   tries, submit_ret, ev_log, drain_vars, relay_vars,
                   store_lock, lock_vars, bs>>

BackoffNext ==
    /\ bk_result.done
    /\ bk_result.n < MaxAttemptArg
    /\ bk_attempt # U32_MAX
    /\ bk_attempt' = U32Succ(bk_attempt)
    /\ bk_result' = Called(bk_attempt', bk_result.ms, bk_result.n + 1)
    /\ UNCHANGED <<service_alive, cmd_queue, submitted, worker_vars,
                   stored_files, metrics, metrics_lock, events, inv, rec_log,
                   reader_vars, client_vars,
                   tries, submit_ret, ev_log, drain_vars, relay_vars,
                   store_lock, lock_vars, bs>>

NextBackoff == BackoffCall \/ BackoffNext

SpecBackoff == InitBackoff /\ [][NextBackoff]_vars

(***************************************************************************)
(* SpecMetrics: the pipeline driven by one client that stores "h1", then   *)
(* sends one download at a time, each with a planned outcome (the hash it  *)
(* asks for and how many destination writes fail first), while another     *)
(* caller takes metrics snapshots at any moment.  The metrics start fresh, *)
(* or aged: as they stand after so many downloads that a counter is one    *)
(* short of u64::MAX or already saturated.                                 *)
(***************************************************************************)
Outcome(hash, fails) == [file_hash |-> hash, fails |-> fails]

Outcomes ==
    {Outcome("h2", 0)} \cup {Outcome("h1", k) : k \in 0..MAX_DOWNLOAD_ATTEMPTS}

Plans ==
    {[base |-> "fresh", outcomes |-> <<a, b>>] : a \in Outcomes, b \in Outcomes}
        \cup {[base |-> b, outcomes |-> <<a, a>>] :
                 b \in {"aged_success", "aged_retries", "aged_failures"},
                 a \in Outcomes}

U64_HALF == <<(Limb \div 2) - 1, LimbMax, LimbMax, LimbMax>>
U64_MAX_LESS_1 == <<LimbMax, LimbMax, LimbMax, LimbMax - 1>>

\* the history after a long run of first-try successes
HistorySuccess ==
    [i \in 1..MAX_RECENT_ATTEMPTS |-> AttemptSnapshot("h1", 1, "Success")]

\* the history after a long run of downloads that failed three times
HistoryFailed ==
    [i \in 1..MAX_RECENT_ATTEMPTS |->
        IF i % 3 = 1 THEN AttemptSnapshot("h2", 3, "Failed")
        ELSE IF i % 3 = 2 THEN AttemptSnapshot("h2", 2, "Retrying")
        ELSE AttemptSnapshot("h2", 1, "Retrying")]

BaseMetrics(base) ==
    IF base = "fresh" THEN DefaultMetrics
    ELSE IF base = "aged_success"
    THEN [total_success |-> U64_MAX_LESS_1, total_failures |-> U64_ZERO,
          total_retries |-> U64_ZERO, recent_attempts |-> HistorySuccess]
    ELSE IF base = "aged_retries"
    THEN [total_success |-> U64_ZERO, total_failures |-> U64_HALF,
          total_retries |-> U64_MAX_LESS_1, recent_attempts |-> HistoryFailed]
    ELSE [total_success |-> U64_ZERO, total_failures |-> U64_MAX_LESS_1,
          total_retries |-> U64_MAX, recent_attempts |-> HistoryFailed]

Reverse(q) == [i \in 1..Len(q) |-> q[Len(q) + 1 - i]]

InitMetrics ==
    /\ service_alive = TRUE
    /\ cmd_queue = <<>>
    /\ submitted = 0
    /\ w_pc = "recv"
    /\ w_cmd = NoCommand
    /\ attempt = 0
    /\ last_error = NoError
    /\ w_result = NoError
    /\ w_data = NoFile
    /\ cur_snap = NoSnapshot
    /\ dl_ret = NoError
    /\ w_final = NoEvent
    /\ stored_files = EmptyStore
    /\ plan \in Plans
    /\ metrics = BaseMetrics(plan.base)
    /\ metrics_lock = "free"
    /\ events = <<>>
    /\ inv = NoInv
    /\ rec_log = Reverse(metrics.recent_attempts)
    /\ observed = NoSnapshot
    /\ observed_at = 0
    /\ fail_writes = 0
    /\ bk_attempt = U32(0)
    /\ bk_result = NoResult
    /\ InitCallers
    /\ ev_log = NoLog
    /\ InitRelay
    /\ store_lock = "free"
    /\ bs = NoBootstrap

\* the snapshots recorded since the behaviour began
RecordsMade == Len(rec_log) - Len(BaseMetrics(plan.base).recent_attempts)

ClientStore ==
    /\ stored_files["h1"] = NoEntry
    /\ store_lock = "free"
    /\ stored_files' = [stored_files EXCEPT !["h1"] = StoreEntry("n1", "d1")]
    /\ UNCHANGED <<service_alive, cmd_queue, submitted, worker_vars, metrics,
                   metrics_lock, events, inv, rec_log, reader_vars, client_vars,
                   backoff_vars,
                   tries, submit_ret, ev_log, drain_vars, relay_vars,
                   store_lock, lock_vars, bs>>

ClientSubmit ==
    /\ stored_files["h1"] # NoEntry
    /\ w_pc = "recv"
    /\ cmd_queue = <<>>
    /\ RecordsMade < MaxRecords
    /\ LET o == plan.outcomes[(submitted % 2) + 1] IN
        /\ fail_writes' = o.fails
        /\ SendCommand(DownloadFile(o.file_hash))
    /\ UNCHANGED <<service_alive, worker_vars, stored_files, metrics,
                   metrics_lock, events, inv, rec_log, reader_vars, plan,
                   backoff_vars,
                   tries, ev_log, drain_vars, relay_vars,
                   store_lock, lock_vars, bs>>

\* handle_download_file: write_output, failing as the client planned
DlWritePlanned ==
    /\ w_pc = "dl_write"
    /\ FinishAttempt(IF fail_writes = 0 THEN "ok" ELSE WRITE_FAILED)
    /\ fail_writes' = IF fail_writes = 0 THEN 0 ELSE fail_writes - 1
    /\ store_lock' = "free"
    /\ UNCHANGED <<service_alive, cmd_queue, submitted, w_cmd, attempt, w_data,
                   dl_ret, w_final, stored_files, metrics, metrics_lock, events,
                   rec_log, reader_vars, plan, backoff_vars,
                   tries, submit_ret, ev_log, drain_vars, relay_vars,
                   lock_vars, bs>>

NextMetrics ==
    \/ ClientStore
    \/ ClientSubmit
    \/ DownloadMetricsSnapshot
    \/ RecvCommand
    \/ DlLoop
    \/ DlSleep
    \/ DlLookup
    \/ DlWritePlanned
    \/ EmitLock
    \/ RecCount
    \/ RecPush
    \/ RecEvict
    \/ EmitSend
    \/ DlReturn
    \/ SendFinal

SpecMetrics == InitMetrics /\ [][NextMetrics]_vars

(***************************************************************************)
(* SpecFlood: callers that send downloads of a hash nobody stored and      *)
(* never call drain_events.                                                *)
(***************************************************************************)
FloodSubmit ==
    /\ submitted < MaxFlood
    /\ SendCommand(DownloadFile("h2"))
    /\ UNCHANGED <<service_alive, worker_vars, stored_files, metrics,
                   metrics_lock, events, inv, rec_log, reader_vars, client_vars,
                   backoff_vars,
                   tries, ev_log, drain_vars, relay_vars,
                   store_lock, lock_vars, bs>>

NextFlood ==
    \/ FloodSubmit
    \/ DropService
    \/ RecvCommand
    \/ WorkerStop
    \/ DlLoop
    \/ DlSleep
    \/ DlLookup
    \/ EmitLock
    \/ RecCount
    \/ RecPush
    \/ RecEvict
    \/ EmitSend
    \/ DlReturn
    \/ SendFinal

SpecFlood == Init /\ [][NextFlood]_vars

(***************************************************************************)
(* RelayRegistry.  An f32 is NaN or a number, kept in tenths; comparisons  *)
(* with NaN are false and partial_cmp with NaN is None, as in IEEE 754.    *)
(***************************************************************************)
Num(t) == [nan |-> FALSE, tenths |-> t]
NaN == [nan |-> TRUE, tenths |-> 0]

FLt(x, y) == ~x.nan /\ ~y.nan /\ x.tenths < y.tenths
FLe(x, y) == ~x.nan /\ ~y.nan /\ x.tenths <= y.tenths

\* f32::partial_cmp
partial_cmp(x, y) ==
    IF x.nan \/ y.nan THEN "None"
    ELSE IF x.tenths < y.tenths THEN "Less"
    ELSE IF x.tenths > y.tenths THEN "Greater"
    ELSE "Equal"

\* f32::clamp: `if x < min { x = min }; if x > max { x = max }; x`
clamp(x, min, max) ==
    LET y == IF FLt(x, min) THEN min ELSE x
    IN  IF FLt(max, y) THEN max ELSE y

\* what callers hand to register: addrs, alias and health_score
NoAlias == "none"
RegArgs ==
    {[addrs |-> <<"a1">>, alias |-> NoAlias, health_score |-> Num(-2)],
     [addrs |-> <<>>, alias |-> "low", health_score |-> Num(3)],
     [addrs |-> <<>>, alias |-> "medium", health_score |-> Num(6)],
     [addrs |-> <<>>, alias |-> "high", health_score |-> Num(9)],
     [addrs |-> <<"a1", "a2">>, alias |-> NoAlias, health_score |-> Num(15)],
     [addrs |-> <<"a2">>, alias |-> "high", health_score |-> NaN]}

RelayInfo(peer_id, addrs, alias, last_seen, health_score) ==
    [peer_id |-> peer_id, addrs |-> addrs, alias |-> alias,
     last_seen |-> last_seen, health_score |-> health_score]

\* the keys of the map, entries.len()
Registered(map) == {p \in Peers : map[p] # NoRelay}
EntryCount(map) == Cardinality(Registered(map))

\* HashMap::insert
InsertKeepOld(map, peer_id, info) ==
    IF map[peer_id] = NoRelay THEN [map EXCEPT ![peer_id] = info] ELSE map

Insert(map, peer_id, info) == [map EXCEPT ![peer_id] = info]

\* the system clock moves on
Tick ==
    /\ clock < MaxClock
    /\ clock' = clock + 1
    /\ UNCHANGED <<entries, r_last, transfer_vars, lock_vars>>

\* register, with arguments out of args
RegisterFrom(args) ==
    /\ \E peer_id \in Peers, a \in args :
        LET now == clock
            relay_info == RelayInfo(peer_id, a.addrs, a.alias, now,
                                    clamp(a.health_score, Num(0), Num(10)))
            is_new == entries[peer_id] = NoRelay
        IN  /\ entries' = Insert(entries, peer_id, relay_info)
            /\ r_last' = [op |-> "register", peer_id |-> peer_id, args |-> a,
                          is_new |-> is_new]
    /\ UNCHANGED <<clock, transfer_vars, lock_vars>>

Register == RegisterFrom(RegArgs)

\* the comparison list hands to sort_by
compare(a, b) ==
    LET c == partial_cmp(b.health_score, a.health_score)
    IN  IF c = "None" THEN "Equal" ELSE c

\* slice::sort_by on a short slice: a stable insertion sort, each element
\* moved left while it compares Less than the one before it
RECURSIVE InsertTail(_, _)
InsertTail(sorted, x) ==
    IF sorted = <<>> THEN <<x>>
    ELSE IF compare(x, sorted[Len(sorted)]) = "Less"
    THEN Append(InsertTail(SubSeq(sorted, 1, Len(sorted) - 1), x),
                sorted[Len(sorted)])
    ELSE Append(sorted, x)

RECURSIVE sort_by(_)
sort_by(v) ==
    IF v = <<>> THEN <<>>
    ELSE InsertTail(sort_by(SubSeq(v, 1, Len(v) - 1)), v[Len(v)])

\* entries.values(): every entry once, in an order the HashMap chooses
ValueOrders(map) ==
    LET n == EntryCount(map)
    IN  {[i \in 1..n |-> map[f[i]]] :
            f \in {g \in [1..n -> Registered(map)] :
                      \A i \in 1..n : \A j \in 1..n : g[i] = g[j] => i = j}}

\* list.  twin is what list returns in another run of the program that made
\* the same calls: a HashMap draws its hash keys afresh for every map, so the
\* order of values() is chosen afresh there
List ==
    /\ \E relays \in ValueOrders(entries), again \in ValueOrders(entries) :
        r_last' = [op |-> "list", result |-> sort_by(relays),
                   twin |-> sort_by(again)]
    /\ UNCHANGED <<entries, clock, transfer_vars, lock_vars>>

\* get
Get ==
    /\ \E peer_id \in Peers :
        r_last' = [op |-> "get", peer_id |-> peer_id, result |-> entries[peer_id]]
    /\ UNCHANGED <<entries, clock, transfer_vars, lock_vars>>

\* contains
Contains ==
    /\ \E peer_id \in Peers :
        r_last' = [op |-> "contains", peer_id |-> peer_id,
                   result |-> (entries[peer_id] # NoRelay)]
    /\ UNCHANGED <<entries, clock, transfer_vars, lock_vars>>

\* count
Count ==
    /\ r_last' = [op |-> "count", result |-> EntryCount(entries)]
    /\ UNCHANGED <<entries, clock, transfer_vars, lock_vars>>

\* u64::saturating_sub
saturating_sub(a, b) == IF a >= b THEN a - b ELSE 0

\* prune_stale: the closure given to retain
is_stale_at_max_age(relay, now, max_age_secs) ==
    saturating_sub(now, relay.last_seen) >= max_age_secs

is_stale(relay, now, max_age_secs) ==
    saturating_sub(now, relay.last_seen) > max_age_secs

\* prune_stale, with now out of nows and max_age_secs out of ages
PruneStaleWith(nows, ages) ==
    /\ \E now \in nows, max_age_secs \in ages :
        /\ entries' =
              [p \in Peers |->
                  IF entries[p] # NoRelay /\ is_stale(entries[p], now, max_age_secs)
                  THEN NoRelay ELSE entries[p]]
        /\ r_last' = [op |-> "prune_stale", now |-> now,
                      max_age_secs |-> max_age_secs,
                      result |-> EntryCount(entries) - EntryCount(entries')]
    /\ UNCHANGED <<clock, transfer_vars, lock_vars>>

PruneStale == PruneStaleWith(0..MaxClock, 0..MaxAge)

\* remove: entries.remove(peer_id).is_some()
is_some_always(map, peer_id) == TRUE

is_some(map, peer_id) == map[peer_id] # NoRelay

\* remove
Remove ==
    /\ \E peer_id \in Peers :
        /\ entries' = [entries EXCEPT ![peer_id] = NoRelay]
        /\ r_last' = [op |-> "remove", peer_id |-> peer_id,
                      result |-> is_some(entries, peer_id)]
    /\ UNCHANGED <<clock, transfer_vars, lock_vars>>

\* clear
Clear ==
    /\ entries' = [p \in Peers |-> NoRelay]
    /\ r_last' = [op |-> "clear"]
    /\ UNCHANGED <<clock, transfer_vars, lock_vars>>

NextRelay ==
    \/ Tick
    \/ Register
    \/ List
    \/ Get
    \/ Contains
    \/ Count
    \/ PruneStale
    \/ Remove
    \/ Clear

SpecRelay == Init /\ [][NextRelay]_vars

(***************************************************************************)
(* SpecPrune: the registry over a day's timestamps.  Relays register at    *)
(* the instants of the module's prune test and the sweeper calls           *)
(* prune_stale with a now that may lie before a relay's last_seen.          *)
(***************************************************************************)
PruneInstants == {9000, 9800, 10000}
PruneAges == {0, 200, 300}

\* the system clock reaches a later instant
ClockReaches ==
    /\ \E t \in PruneInstants :
        /\ t > clock
        /\ clock' = t
    /\ UNCHANGED <<entries, r_last, transfer_vars, lock_vars>>

\* a relay registers with a health_score of 0.9
RegisterHealthy ==
    RegisterFrom({a \in RegArgs : a.health_score = Num(9)})

\* the sweeper's prune_stale
PruneSweep == PruneStaleWith(PruneInstants, PruneAges)

NextPrune ==
    \/ ClockReaches
    \/ RegisterHealthy
    \/ PruneSweep
    \/ Count

SpecPrune == Init /\ [][NextPrune]_vars

(***************************************************************************)
(* SpecRelayLock: two tasks share one RelayRegistry.  Every method asks    *)
(* for the RwLock, works while it holds the guard and gives it back when   *)
(* it returns; retain visits the entries one at a time.  The order in      *)
(* which tokio admits waiting tasks is left open, and the calls are made   *)
(* within one second of the clock.                                         *)
(***************************************************************************)
Writers == {"register", "remove", "prune_stale", "clear"}
Readers == {"list", "get", "contains", "count"}

NoArgs == [addrs |-> <<>>, alias |-> NoAlias, health_score |-> Num(0)]
MethodCall(op, peer_id, args, now, max_age_secs) ==
    [op |-> op, peer_id |-> peer_id, args |-> args, now |-> now,
     max_age_secs |-> max_age_secs]

\* the calls a task may make at the time clock
RelayCalls ==
    {MethodCall("register", p, a, clock, 0) :
        p \in Peers, a \in {b \in RegArgs : b.health_score = Num(9)}}
    \cup {MethodCall(op, p, NoArgs, 0, 0) :
        op \in {"remove", "get", "contains"}, p \in Peers}
    \cup {MethodCall("prune_stale", "none", NoArgs, now, 0) : now \in 0..MaxClock}
    \cup {MethodCall(op, "none", NoArgs, 0, 0) : op \in {"clear", "list", "count"}}

CallsMade == rc[1].calls + rc[2].calls

\* RwLock::read and RwLock::write: when the lock admits the task
ReadAdmittedDuringWrite(lock) == TRUE

ReadAdmitted(lock) == lock.writer = NoWriter

WriteAdmitted(lock) == lock.writer = NoWriter /\ lock.readers = {}

\* a task calls a method; register reads the system time before it asks for
\* the lock
RelayCall(c) ==
    /\ rc[c].pc = "idle"
    /\ CallsMade < MaxRelayCalls
    /\ \E call \in RelayCalls :
        rc' = [rc EXCEPT ![c] = [@ EXCEPT !.pc = "wait", !.call = call,
                                          !.calls = @ + 1]]
    /\ UNCHANGED <<relay_vars, rw, committed, transfer_vars>>

\* self.entries.write().await returns the guard; prune_stale takes
\* before_count and retain starts over the entries
AcquireWrite(c) ==
    /\ rc[c].pc = "wait"
    /\ rc[c].call.op \in Writers
    /\ WriteAdmitted(rw)
    /\ rw' = [rw EXCEPT !.writer = c]
    /\ rc' = [rc EXCEPT ![c] = [@ EXCEPT !.pc = "hold",
                                          !.todo = Registered(entries),
                                          !.before_count = EntryCount(entries)]]
    /\ UNCHANGED <<relay_vars, committed, transfer_vars>>

\* self.entries.read().await returns the guard
AcquireRead(c) ==
    /\ rc[c].pc = "wait"
    /\ rc[c].call.op \in Readers
    /\ ReadAdmitted(rw)
    /\ rw' = [rw EXCEPT !.readers = @ \cup {c}]
    /\ rc' = [rc EXCEPT ![c] = [@ EXCEPT !.pc = "hold"]]
    /\ UNCHANGED <<relay_vars, committed, transfer_vars>>

\* retain calls the closure on one more entry and drops the entry if stale
RetainVisit(c) ==
    /\ rc[c].pc = "hold"
    /\ rc[c].call.op = "prune_stale"
    /\ \E p \in rc[c].todo :
        /\ entries' =
              IF is_stale(entries[p], rc[c].call.now, rc[c].call.max_age_secs)
              THEN [entries EXCEPT ![p] = NoRelay] ELSE entries
        /\ rc' = [rc EXCEPT ![c] = [@ EXCEPT !.todo = @ \ {p}]]
    /\ UNCHANGED <<clock, r_last, rw, committed, transfer_vars>>

\* the rest of a mutating method: its change, its return value, and the
\* write guard dropped
WriteReturn(c) ==
    /\ rc[c].pc = "hold"
    /\ rc[c].call.op \in Writers
    /\ rc[c].todo = {} \/ rc[c].call.op # "prune_stale"
    /\ LET call == rc[c].call
           relay_info == RelayInfo(call.peer_id, call.args.addrs,
                                   call.args.alias, call.now,
                                   clamp(call.args.health_score, Num(0), Num(10)))
           after == CASE call.op = "register" ->
                            Insert(entries, call.peer_id, relay_info)
                      [] call.op = "remove" ->
                            [entries EXCEPT ![call.peer_id] = NoRelay]
                      [] call.op = "prune_stale" -> entries
                      [] call.op = "clear" -> [p \in Peers |-> NoRelay]
           result == CASE call.op = "remove" ->
                            <<is_some(entries, call.peer_id)>>
                       [] call.op = "prune_stale" ->
                            <<rc[c].before_count - EntryCount(entries)>>
                       [] OTHER -> <<>>
       IN  /\ entries' = after
           /\ committed' = after
           /\ r_last' = [op |-> call.op, by |-> c, call |-> call,
                         saw |-> committed, left |-> after, result |-> result]
    /\ rw' = [rw EXCEPT !.writer = NoWriter]
    /\ rc' = [rc EXCEPT ![c] = [IdleCall EXCEPT !.calls = rc[c].calls]]
    /\ UNCHANGED <<clock, transfer_vars>>

\* the rest of a reading method: what it reads, and the read guard dropped
ReadReturn(c) ==
    /\ rc[c].pc = "hold"
    /\ rc[c].call.op \in Readers
    /\ LET call == rc[c].call IN
        \E relays \in ValueOrders(entries) :
            r_last' = [op |-> call.op, by |-> c, call |-> call,
                       saw |-> entries, left |-> committed,
                       result |->
                          CASE call.op = "list" -> <<sort_by(relays)>>
                            [] call.op = "get" -> <<entries[call.peer_id]>>
                            [] call.op = "contains" ->
                                  <<entries[call.peer_id] # NoRelay>>
                            [] call.op = "count" -> <<EntryCount(entries)>>]
    /\ rw' = [rw EXCEPT !.readers = @ \ {c}]
    /\ rc' = [rc EXCEPT ![c] = [IdleCall EXCEPT !.calls = rc[c].calls]]
    /\ UNCHANGED <<entries, clock, committed, transfer_vars>>

NextRelayLock ==
    \/ \E c \in RelayCallers :
        \/ RelayCall(c)
        \/ AcquireWrite(c)
        \/ AcquireRead(c)
        \/ RetainVisit(c)
        \/ WriteReturn(c)
        \/ ReadReturn(c)

SpecRelayLock == Init /\ [][NextRelayLock]_vars

(***************************************************************************)
(* get_bootstrap_nodes.  A string is a sequence of characters; the         *)
(* BOOTSTRAP_NODES variable is unset or holds a string, and the packaged   *)
(* bootstrap_nodes.json either fails to parse or gives a list of nodes.    *)
(***************************************************************************)
Chars == {"a", " ", ","}
EnvStrings == UNION {[1..n -> Chars] : n \in 0..MaxEnvLen}
EnvValues ==
    {[set |-> FALSE, value |-> <<>>]}
    \cup {[set |-> TRUE, value |-> v] : v \in EnvStrings}

BootstrapNode(alias, multiaddr) == [alias |-> alias, multiaddr |-> multiaddr]
PackagedFiles ==
    {[ok |-> FALSE, nodes |-> <<>>],
     [ok |-> TRUE, nodes |-> <<>>],
     [ok |-> TRUE, nodes |-> <<BootstrapNode("n1", <<"f", "1">>)>>],
     [ok |-> TRUE, nodes |-> <<BootstrapNode("n2", <<"f", "2">>),
                               BootstrapNode("n1", <<"f", "1">>)>>]}

\* str::split(',')
RECURSIVE split(_, _)
split(s, sep) ==
    IF \A i \in 1..Len(s) : s[i] # sep THEN <<s>>
    ELSE LET i == CHOOSE k \in 1..Len(s) :
                    s[k] = sep /\ \A j \in 1..(k - 1) : s[j] # sep
         IN  <<SubSeq(s, 1, i - 1)>> \o split(SubSeq(s, i + 1, Len(s)), sep)

\* str::trim
RECURSIVE trim_start(_)
trim_start(s) ==
    IF s # <<>> /\ s[1] = " " THEN trim_start(Tail(s)) ELSE s

RECURSIVE trim_end(_)
trim_end(s) ==
    IF s # <<>> /\ s[Len(s)] = " " THEN trim_end(SubSeq(s, 1, Len(s) - 1)) ELSE s

trim_leading_only(s) == trim_start(s)

trim(s) == trim_end(trim_start(s))

\* .filter(|s| !s.is_empty())
not_empty(s) == s # <<>>

\* env_nodes.split(',').map(trim).filter(not empty).collect()
EnvNodes(env_nodes) ==
    LET parts == split(env_nodes, ",")
    IN  SelectSeq([i \in 1..Len(parts) |-> trim(parts[i])], not_empty)

\* load_bootstrap_nodes_from_json
load_bootstrap_nodes_from_json(file) ==
    IF file.ok
    THEN [ok |-> TRUE, nodes |-> [i \in 1..Len(file.nodes) |-> file.nodes[i].multiaddr]]
    ELSE [ok |-> FALSE, nodes |-> <<>>]

get_hardcoded_bootstrap_nodes ==
    <<<<"/", "1", "3", "4">>, <<"/", "1", "3", "6">>, <<"/", "1", "3", "0">>>>

get_bootstrap_nodes(env, file) ==
    LET nodes == EnvNodes(env.value)
        loaded == load_bootstrap_nodes_from_json(file)
    IN  IF env.set /\ nodes # <<>> THEN nodes
        ELSE IF loaded.ok /\ loaded.nodes # <<>> THEN loaded.nodes
        ELSE get_hardcoded_bootstrap_nodes

(***************************************************************************)
(* SpecBootstrap: the program starts with some BOOTSTRAP_NODES and some    *)
(* packaged file and calls get_bootstrap_nodes.                            *)
(***************************************************************************)
InitBootstrap ==
    /\ InitPipeline
    /\ ev_log = NoLog
    /\ plan = NoPlan
    /\ fail_writes = 0
    /\ bk_attempt = U32(0)
    /\ bk_result = NoResult
    /\ \E env \in EnvValues, file \in PackagedFiles :
        bs = [called |-> FALSE, env |-> env, file |-> file, out |-> <<>>]

GetBootstrapNodes ==
    /\ ~bs.called
    /\ bs' = [bs EXCEPT !.called = TRUE,
                        !.out = get_bootstrap_nodes(bs.env, bs.file)]
    /\ UNCHANGED <<transfer_vars_but_bs, relay_vars, lock_vars>>

NextBootstrap == GetBootstrapNodes

SpecBootstrap == InitBootstrap /\ [][NextBootstrap]_vars

(***************************************************************************)
(* SpecSubmit: callers that send downloads of a hash nobody stored until   *)
(* the command channel is full, with a worker that may be slow, behind a   *)
(* full event channel, or cancelled with its runtime.                      *)
(***************************************************************************)
\* the awaits of the worker task: where the runtime can drop it
AwaitPoints ==
    {"recv", "up_read", "up_store", "dl_sleep", "dl_lookup", "dl_write",
     "emit_lock", "emit_send", "send_final"}

\* the runtime that new() spawned the worker on shuts down: the task is
\* dropped at an await, and cmd_rx and its event_tx with it
RuntimeShutdown ==
    /\ w_pc \in AwaitPoints
    /\ w_pc' = "aborted"
    /\ UNCHANGED <<service_alive, cmd_queue, submitted, w_cmd, attempt,
                   last_error, w_result, w_data, cur_snap, dl_ret, w_final,
                   stored_files, metrics, metrics_lock, events, inv, rec_log,
                   reader_vars, client_vars, backoff_vars, tries, submit_ret,
                   ev_log, drain_vars, relay_vars,
                   store_lock, lock_vars, bs>>

SubmitMany ==
    /\ submitted < MaxSubmits
    /\ SendCommand(DownloadFile("h2"))
    /\ UNCHANGED <<service_alive, worker_vars, stored_files, metrics,
                   metrics_lock, events, inv, rec_log, reader_vars, client_vars,
                   backoff_vars, tries, ev_log, drain_vars, relay_vars,
                   store_lock, lock_vars, bs>>

NextSubmit ==
    \/ SubmitMany
    \/ RuntimeShutdown
    \/ RecvCommand
    \/ DlLoop
    \/ DlSleep
    \/ DlLookup
    \/ EmitLock
    \/ RecCount
    \/ RecPush
    \/ RecEvict
    \/ EmitSend
    \/ DlReturn
    \/ SendFinal

SpecSubmit == Init /\ [][NextSubmit]_vars

(***************************************************************************)
(* SpecDrain: the pipeline with two callers of drain_events, each call     *)
(* taken step by step (the lock on event_rx, one try_recv at a time, the   *)
(* return), and a log of every event sent.                                 *)
(***************************************************************************)
InitDrain ==
    /\ InitPipeline
    /\ bs = NoBootstrap
    /\ ev_log = EmptyLog
    /\ plan = NoPlan
    /\ fail_writes = 0
    /\ bk_attempt = U32(0)
    /\ bk_result = NoResult

\* drain_events(max) is called
DrainCall(d) ==
    /\ service_alive
    /\ dr[d].pc = "idle"
    /\ drain_calls < MaxDrainCalls
    /\ drain_calls' = drain_calls + 1
    /\ \E max \in 0..MaxDrain :
        dr' = [dr EXCEPT ![d] = [pc |-> "lock", max |-> max, got |-> <<>>]]
    /\ UNCHANGED <<service_alive, cmd_queue, submitted, worker_vars,
                   stored_files, metrics, metrics_lock, events, inv, rec_log,
                   reader_vars, client_vars, backoff_vars, tries, submit_ret,
                   ev_log, rx_lock, drained_log, relay_vars,
                   store_lock, lock_vars, bs>>

\* self.event_rx.lock().await
DrainLock(d) ==
    /\ dr[d].pc = "lock"
    /\ rx_lock = NoHolder
    /\ rx_lock' = d
    /\ dr' = [dr EXCEPT ![d].pc = "loop"]
    /\ UNCHANGED <<service_alive, cmd_queue, submitted, worker_vars,
                   stored_files, metrics, metrics_lock, events, inv, rec_log,
                   reader_vars, client_vars, backoff_vars, tries, submit_ret,
                   ev_log, drained_log, drain_calls, relay_vars,
                   store_lock, lock_vars, bs>>

\* what try_recv leaves in the channel when it returns Ok(event)
TakenPeek(queue) == queue

Taken(queue) == Tail(queue)

\* one turn of `for _ in 0..max` in which try_recv returns Ok(event)
DrainTryRecv(d) ==
    /\ dr[d].pc = "loop"
    /\ Len(dr[d].got) < dr[d].max
    /\ events # <<>>
    /\ dr' = [dr EXCEPT ![d].got = Append(@, Head(events))]
    /\ events' = Taken(events)
    /\ UNCHANGED <<service_alive, cmd_queue, submitted, worker_vars,
                   stored_files, metrics, metrics_lock, inv, rec_log,
                   reader_vars, client_vars, backoff_vars, tries, submit_ret,
                   ev_log, rx_lock, drained_log, drain_calls, relay_vars,
                   store_lock, lock_vars, bs>>

\* the loop ends, after max turns or on try_recv's Err, and the call returns
DrainReturn(d) ==
    /\ dr[d].pc = "loop"
    /\ Len(dr[d].got) >= dr[d].max \/ events = <<>>
    /\ drained_log' = drained_log \o dr[d].got
    /\ rx_lock' = NoHolder
    /\ dr' = [dr EXCEPT ![d] = IdleDrain]
    /\ UNCHANGED <<service_alive, cmd_queue, submitted, worker_vars,
                   stored_files, metrics, metrics_lock, events, inv, rec_log,
                   reader_vars, client_vars, backoff_vars, tries, submit_ret,
                   ev_log, drain_calls, relay_vars,
                   store_lock, lock_vars, bs>>

NextDrain ==
    \/ Submit
    \/ \E d \in Drainers : DrainCall(d)
    \/ \E d \in Drainers : DrainLock(d)
    \/ \E d \in Drainers : DrainTryRecv(d)
    \/ \E d \in Drainers : DrainReturn(d)
    \/ RecvCommand
    \/ UpRead
    \/ UpStore
    \/ SendFinal
    \/ DlLoop
    \/ DlSleep
    \/ DlLookup
    \/ DlWrite
    \/ EmitLock
    \/ RecCount
    \/ RecPush
    \/ RecEvict
    \/ EmitSend
    \/ DlReturn

SpecDrain == InitDrain /\ [][NextDrain]_vars

(***************************************************************************)
(* SpecLive: the pipeline with its service kept, from the state where the  *)
(* event channel is full of the events of earlier failed downloads, with   *)
(* callers that send further commands and a consumer.  tokio runs the      *)
(* worker task whenever it can go on, and the consumer keeps calling       *)
(* drain_events: a step of either that stays possible is taken in the end. *)
(***************************************************************************)
WorkerStep ==
    \/ RecvCommand
    \/ UpRead
    \/ UpStore
    \/ SendFinal
    \/ DlLoop
    \/ DlSleep
    \/ DlLookup
    \/ DlWrite
    \/ EmitLock
    \/ RecCount
    \/ RecPush
    \/ RecEvict
    \/ EmitSend
    \/ DlReturn

\* the downloads of "h2" whose events fill the event channel
LiveBacklog == EVENT_CAPACITY \div (MAX_DOWNLOAD_ATTEMPTS + 1)

\* the j-th snapshot recorded and the i-th event sent while the backlog built up
BacklogSnapshot(j) ==
    LET n == ((j - 1) % MAX_DOWNLOAD_ATTEMPTS) + 1
    IN  AttemptSnapshot("h2", n, FailureStatus(n))

BacklogEvent(i) ==
    LET c == ((i - 1) \div (MAX_DOWNLOAD_ATTEMPTS + 1)) + 1
        r == (i - 1) % (MAX_DOWNLOAD_ATTEMPTS + 1)
    IN  IF r < MAX_DOWNLOAD_ATTEMPTS
        THEN OfCommand(DownloadAttempt(BacklogSnapshot(r + 1)), c)
        ELSE OfCommand(ErrorEvent("Download failed", NOT_FOUND), c)

\* the service after LiveBacklog downloads of "h2" with no drain_events call
InitLive ==
    /\ service_alive = TRUE
    /\ cmd_queue = <<>>
    /\ submitted = LiveBacklog
    /\ w_pc = "recv"
    /\ w_cmd = NoCommand
    /\ attempt = 0
    /\ last_error = NoError
    /\ w_result = NoError
    /\ w_data = NoFile
    /\ cur_snap = NoSnapshot
    /\ dl_ret = NoError
    /\ w_final = NoEvent
    /\ stored_files = EmptyStore
    /\ rec_log = [j \in 1..(MAX_DOWNLOAD_ATTEMPTS * LiveBacklog) |-> BacklogSnapshot(j)]
    /\ metrics =
          [total_success |-> U64_ZERO,
           total_failures |-> U64PlusSmall(U64_ZERO, LiveBacklog),
           total_retries |->
              U64PlusSmall(U64_ZERO, (MAX_DOWNLOAD_ATTEMPTS - 1) * LiveBacklog),
           recent_attempts |->
              [i \in 1..MAX_RECENT_ATTEMPTS |-> rec_log[Len(rec_log) - i + 1]]]
    /\ metrics_lock = "free"
    /\ store_lock = "free"
    /\ events = [i \in 1..((MAX_DOWNLOAD_ATTEMPTS + 1) * LiveBacklog) |-> BacklogEvent(i)]
    /\ ev_log = [on |-> TRUE, seq |-> events]
    /\ inv = NoInv
    /\ observed = NoSnapshot
    /\ observed_at = 0
    /\ tries = 0
    /\ submit_ret = "ok"
    /\ rx_lock = NoHolder
    /\ dr = [d \in Drainers |-> IdleDrain]
    /\ drained_log = <<>>
    /\ drain_calls = 0
    /\ InitRelay
    /\ bs = NoBootstrap
    /\ plan = NoPlan
    /\ fail_writes = 0
    /\ bk_attempt = U32(0)
    /\ bk_result = NoResult

\* upload_file and download_file: the commands that end in a closing event
LiveSubmit ==
    /\ submitted < LiveBacklog + MaxLiveCommands
    /\ \E cmd \in Commands \ {GetStoredFiles} : SendCommand(cmd)
    /\ UNCHANGED <<service_alive, worker_vars, stored_files, metrics,
                   metrics_lock, events, inv, rec_log, reader_vars, client_vars,
                   backoff_vars,
                   tries, ev_log, drain_vars, relay_vars,
                   store_lock, lock_vars, bs>>

\* the consumer's drain_events(max) with max the capacity of the channel
LiveDrain == DrainUpTo({EVENT_CAPACITY})

NextLive ==
    \/ LiveSubmit
    \/ StoreFileData
    \/ LiveDrain
    \/ WorkerStep

\* a drain_events call that finds an event
LiveDrainSome == events # <<>> /\ LiveDrain

\* every step of the worker changes w_pc or the metrics, and a drain that
\* takes an event changes the channel
SpecLive ==
    /\ InitLive
    /\ [][NextLive]_vars
    /\ WF_<<w_pc, metrics>>(WorkerStep)
    /\ WF_events(LiveDrainSome)

(***************************************************************************)
(* The claims.                                                             *)
(***************************************************************************)
\* download_with_retries has returned and the worker has not yet looked at
\* the result
Completed == w_pc = "dl_ret" /\ inv.active

StatusesOf(snaps) == [i \in 1..Len(snaps) |-> snaps[i].status]

\* the counters moved by exactly these amounts since the invocation began
CountersMoved(success, failures, retries) ==
    /\ metrics.total_success = U64PlusSmall(inv.base.total_success, success)
    /\ metrics.total_failures = U64PlusSmall(inv.base.total_failures, failures)
    /\ metrics.total_retries = U64PlusSmall(inv.base.total_retries, retries)

\* the last k snapshots given to record_attempt
LastRecorded(k) == SubSeq(rec_log, Len(rec_log) - k + 1, Len(rec_log))

\* C1: when a download invocation has completed, the snapshots it emitted
\* carry the attempt numbers 1, 2, ..., k in emission order, with
\* 1 <= k <= MAX_DOWNLOAD_ATTEMPTS, every one with max_attempts = 3, and
\* they are the last k snapshots the metrics were given.
C1_AttemptNumbersContiguous ==
    Completed =>
        LET k == Len(inv.snaps) IN
            /\ 1 <= k
            /\ k <= MAX_DOWNLOAD_ATTEMPTS
            /\ \A i \in 1..k :
                /\ inv.snaps[i].attempt = i
                /\ inv.snaps[i].max_attempts = 3
            /\ Len(rec_log) >= k
            /\ LastRecorded(k) = inv.snaps

C1_Witness == Completed /\ Len(inv.snaps) = 3 /\ inv.snaps[3].attempt = 3

\* C2: when the hash had no entry in the store for the whole invocation, the
\* completed invocation made exactly 3 attempts, emitted the statuses
\* Retrying, Retrying, Failed in that order, returned an error, and moved the
\* counters by total_failures +1, total_retries +2, total_success +0.
C2_AbsentFailsAfterThree ==
    (Completed /\ inv.absent) =>
        /\ Len(inv.snaps) = 3
        /\ StatusesOf(inv.snaps) = <<"Retrying", "Retrying", "Failed">>
        /\ dl_ret # "ok"
        /\ dl_ret = NOT_FOUND
        /\ CountersMoved(0, 1, 2)

C2_Witness == Completed /\ inv.absent /\ dl_ret = NOT_FOUND

\* C3: when the hash is present and the destination write fails on the first
\* two attempts and succeeds on the third, the completed invocation made
\* exactly 3 attempts, emitted the statuses Retrying, Retrying, Success in
\* that order, returned Ok and moved the counters by total_retries +2,
\* total_success +1, total_failures +0; from empty metrics that leaves
\* total_retries = 2, total_success = 1, total_failures = 0 and 3 entries in
\* recent_attempts.
C3_TwoWriteFailuresThenSuccess ==
    (Completed /\ inv.results = <<WRITE_FAILED, WRITE_FAILED, "ok">>) =>
        /\ Len(inv.snaps) = 3
        /\ StatusesOf(inv.snaps) = <<"Retrying", "Retrying", "Success">>
        /\ dl_ret = "ok"
        /\ CountersMoved(1, 0, 2)
        /\ inv.base = DefaultMetrics =>
            /\ metrics.total_retries = <<0, 0, 0, 2>>
            /\ metrics.total_success = <<0, 0, 0, 1>>
            /\ metrics.total_failures = U64_ZERO
            /\ Len(metrics.recent_attempts) = 3

C3_Witness ==
    /\ Completed
    /\ inv.results = <<WRITE_FAILED, WRITE_FAILED, "ok">>
    /\ inv.base = DefaultMetrics

\* C4: at every moment of an invocation every snapshot emitted before the
\* latest one has status Retrying (no attempt follows a Success or a Failed),
\* and a Failed snapshot carries attempt number 3; when the invocation has
\* completed, its last snapshot is the one terminal snapshot, Success exactly
\* when Ok was returned; and a success on the first try yields exactly one
\* snapshot, with status Success, and total_success +1, total_retries +0.
C4_OneTerminalSnapshotLast ==
    inv.active =>
        /\ \A i \in 1..Len(inv.snaps) :
            /\ i < Len(inv.snaps) => inv.snaps[i].status = "Retrying"
            /\ inv.snaps[i].status = "Failed" =>
                  inv.snaps[i].attempt = MAX_DOWNLOAD_ATTEMPTS
        /\ Completed =>
            /\ inv.snaps # <<>>
            /\ inv.snaps[Len(inv.snaps)].status \in {"Success", "Failed"}
            /\ inv.snaps[Len(inv.snaps)].status = "Success" <=> dl_ret = "ok"
        /\ (Completed /\ inv.results = <<"ok">>) =>
            /\ StatusesOf(inv.snaps) = <<"Success">>
            /\ CountersMoved(1, 0, 0)

C4_Witness ==
    /\ Completed
    /\ inv.results = <<"ok">>
    /\ inv.snaps = <<AttemptSnapshot(inv.file_hash, 1, "Success")>>

\* C5: the worker is never gated on the event consumer: whenever
\* it holds a command, it has a step to take, whether or not anybody drains
\* the event channel.
C5_WorkerNeverGated == (w_pc \notin {"recv", "stopped"}) => ENABLED Worker

\* the attempt number given to backoff_delay is n
AttemptIs(n) == bk_attempt = U32(n)

\* the attempt number given to backoff_delay is 6 or more
AttemptAtLeast6 == bk_attempt[1] > 0 \/ bk_attempt[2] >= 6

\* C6: backoff_delay gives 0 ms for attempt 1 and 250, 500, 1000,
\* 1500, 1500 ms for attempts 2, 3, 4, 5, 6+.
C6_BackoffTableClaimed ==
    bk_result.done =>
        /\ AttemptIs(1) => bk_result.ms = 0
        /\ AttemptIs(2) => bk_result.ms = 250
        /\ AttemptIs(3) => bk_result.ms = 500
        /\ AttemptIs(4) => bk_result.ms = 1000
        /\ AttemptIs(5) => bk_result.ms = 1500
        /\ AttemptAtLeast6 => bk_result.ms = 1500

\* min(a - 1, 4) for a u32 a >= 2
ExponentOf(a) == IF a[1] > 0 \/ a[2] >= 5 THEN 4 ELSE a[2] - 1

\* C7: for every attempt number a of the u32 range backoff_delay(a) is 0 when
\* a <= 1 and min(BASE_BACKOFF_MS * 2^min(a - 1, 4), MAX_BACKOFF_MS)
\* otherwise; it never exceeds 1500 ms, is not below the delay of a - 1, and
\* its evaluation never subtracts from 0.
C7_BackoffClosedForm ==
    bk_result.done =>
        /\ bk_result.ms =
              IF bk_attempt \in {<<0, 0>>, <<0, 1>>} THEN 0
              ELSE Min(250 * 2^ExponentOf(bk_attempt), 1500)
        /\ bk_result.ms <= 1500
        /\ bk_result.prev <= bk_result.ms
        /\ ~bk_result.trap

C7_Witness == bk_result.done /\ bk_attempt = U32_MAX /\ bk_result.ms = 1500

\* C8: whenever no record_attempt call is under way, recent_attempts holds at
\* most 20 snapshots, and they are the min(n, 20) most recently recorded of
\* the n snapshots recorded, newest first; a metrics snapshot never holds
\* more than 20.
C8_RecentAttemptsNewestFirst ==
    /\ metrics_lock = "free" =>
        LET n == Len(rec_log)
            k == Min(n, 20)
        IN  /\ Len(metrics.recent_attempts) <= 20
            /\ metrics.recent_attempts = Reverse(SubSeq(rec_log, n - k + 1, n))
    /\ observed # NoSnapshot => Len(observed.recent_attempts) <= 20

C8_Witness ==
    /\ metrics_lock = "free"
    /\ plan.base = "fresh"
    /\ Len(rec_log) > 20
    /\ Len(metrics.recent_attempts) = 20
    /\ metrics.recent_attempts[1] = rec_log[Len(rec_log)]

\* y is x + 1, for u64 values
IsSuccessor(x, y) ==
    \E k \in 1..4 :
        /\ y[k] = x[k] + 1
        /\ y[k] <= LimbMax
        /\ \A j \in 1..4 :
            /\ j < k => y[j] = x[j]
            /\ j > k => x[j] = LimbMax /\ y[j] = 0

\* y is x + 1, or x when x is u64::MAX
Bumped(x, y) == IF x = U64_MAX THEN y = U64_MAX ELSE IsSuccessor(x, y)

\* C9: the counting step of each record_attempt call adds 1 to the counter
\* its snapshot's status selects (total_retries for Retrying, total_success
\* for Success, total_failures for Failed), a counter at u64::MAX staying
\* there, and leaves the other two as they were; no other step changes a
\* counter.
C9_CountStep ==
    IF w_pc = "rec_count" /\ w_pc' = "rec_push"
    THEN /\ cur_snap.status = "Retrying" =>
              /\ Bumped(metrics.total_retries, metrics'.total_retries)
              /\ metrics'.total_success = metrics.total_success
              /\ metrics'.total_failures = metrics.total_failures
         /\ cur_snap.status = "Success" =>
              /\ Bumped(metrics.total_success, metrics'.total_success)
              /\ metrics'.total_retries = metrics.total_retries
              /\ metrics'.total_failures = metrics.total_failures
         /\ cur_snap.status = "Failed" =>
              /\ Bumped(metrics.total_failures, metrics'.total_failures)
              /\ metrics'.total_retries = metrics.total_retries
              /\ metrics'.total_success = metrics.total_success
         /\ cur_snap.status \in {"Retrying", "Success", "Failed"}
    ELSE /\ metrics'.total_retries = metrics.total_retries
         /\ metrics'.total_success = metrics.total_success
         /\ metrics'.total_failures = metrics.total_failures

C9_ExactlyOneCounterSaturating == [][C9_CountStep]_vars

C9_Witness ==
    /\ w_pc = "rec_push"
    /\ cur_snap.status = "Retrying"
    /\ metrics.total_retries = U64_MAX
    /\ plan.base = "aged_retries"
    /\ RecordsMade >= 2

\* no counter of the snapshot stands at u64::MAX
Unsaturated(m) ==
    U64_MAX \notin {m.total_success, m.total_failures, m.total_retries}

\* min(20, total_success + total_failures + total_retries)
Min20OfTotal(m) ==
    IF \E c \in {m.total_success, m.total_failures, m.total_retries} :
           c[1] > 0 \/ c[2] > 0 \/ c[3] > 0
    THEN 20
    ELSE Min(20, m.total_success[4] + m.total_failures[4] + m.total_retries[4])

\* C10: a metrics snapshot, whenever it was taken, shows the state after a
\* whole number of record_attempt calls: below counter saturation its
\* history has min(20, total_success + total_failures + total_retries)
\* entries, and its entry at index 0 is the snapshot that was counted last
\* before it was taken.
C10_SnapshotNeverTorn ==
    observed # NoSnapshot =>
        /\ Unsaturated(observed) =>
              Len(observed.recent_attempts) = Min20OfTotal(observed)
        /\ observed_at > 0 =>
              /\ observed.recent_attempts # <<>>
              /\ observed.recent_attempts[1] = rec_log[observed_at]
        /\ observed_at = 0 => observed.recent_attempts = <<>>

C10_Witness ==
    /\ observed # NoSnapshot
    /\ inv.active
    /\ w_pc = "dl_sleep"
    /\ observed_at = Len(rec_log)
    /\ observed.recent_attempts[1] = inv.snaps[Len(inv.snaps)]
    /\ plan.base = "fresh"

\* C11: every entry of stored_files is kept under the key that is the
\* SHA-256 digest (lowercase hex) of the entry's bytes, whichever operations
\* wrote the store.
C11_StoreKeysAreDigests ==
    \A h \in Hashes :
        stored_files[h] # NoEntry => h = calculate_file_hash(stored_files[h][2])

\* commands the worker has taken from the channel so far
Received == submitted - Len(cmd_queue)

\* C12: the worker takes the commands in the order they were sent and one at
\* a time: the queue holds the commands sent after the ones taken, in order,
\* the command in hand is the latest taken, and the events in the channel
\* stand in the order of the commands they were sent for, none of them for a
\* command that is not yet taken.
C12_CommandsInArrivalOrder ==
    /\ \A i \in 1..Len(cmd_queue) : cmd_queue[i].seq = Received + i
    /\ w_cmd # NoCommand => w_cmd.seq = Received
    /\ w_pc \notin {"recv", "stopped", "aborted"} => w_cmd # NoCommand
    /\ \A i \in 1..Len(events) :
        /\ events[i].by <= Received
        /\ \A j \in i..Len(events) : events[i].by <= events[j].by
        /\ (events[i].by = Received /\ events[i].type # "DownloadAttempt") =>
              w_pc \in {"recv", "stopped"}

C12_Witness ==
    /\ Len(events) >= 2
    /\ events[1].by = 1
    /\ events[Len(events)].by = 2
    /\ w_pc = "emit_send"

\* C14: a submission returns the channel-closed error only when cmd_rx is
\* dropped, and then enqueues nothing; every command that enters the queue
\* does so by a submission that returned Ok, one command per submission, at
\* the tail; and the Ok stands whatever becomes of the command.
C14_SubmitStep ==
    /\ submit_ret' = CHANNEL_CLOSED =>
          /\ ReceiverDropped
          /\ UNCHANGED <<cmd_queue, submitted>>
    /\ submitted' # submitted =>
          /\ submitted' = submitted + 1
          /\ submit_ret' = "ok"
          /\ ~ReceiverDropped
          /\ Len(cmd_queue') = Len(cmd_queue) + 1
          /\ SubSeq(cmd_queue', 1, Len(cmd_queue)) = cmd_queue
    /\ (submitted' = submitted /\ submit_ret = "ok") =>
          submit_ret' \in {"ok", CHANNEL_CLOSED}
    /\ (submitted' = submitted /\ submit_ret' # CHANNEL_CLOSED) =>
          submit_ret' = submit_ret

C14_SubmitFailsOnlyDisconnected == [][C14_SubmitStep]_vars

C14_Witness ==
    /\ submit_ret = CHANNEL_CLOSED
    /\ w_pc = "aborted"
    /\ \E i \in 1..Len(events) : events[i].type = "Error"
    /\ cmd_queue # <<>>

\* C15: when the three attempts of an invocation have all failed, the
\* invocation returns the error message of the third attempt.
C15_ReturnsLastError ==
    (Completed /\ Len(inv.results) = MAX_DOWNLOAD_ATTEMPTS
        /\ inv.results[MAX_DOWNLOAD_ATTEMPTS] # "ok") =>
        dl_ret = inv.results[MAX_DOWNLOAD_ATTEMPTS]

C15_Witness ==
    /\ Completed
    /\ inv.results = <<NOT_FOUND, NOT_FOUND, WRITE_FAILED>>
    /\ dl_ret = WRITE_FAILED

\* C16: whenever the worker is about to report a command's failure with an
\* Error event, it has tried the command three times.
C16_ErrorsRetriedToBudget ==
    (w_pc = "send_final" /\ w_final.type = "Error") =>
        tries = MAX_DOWNLOAD_ATTEMPTS

\* the worker reports the failure of the command in hand
FailureReported == w_pc = "send_final" /\ w_final.type = "Error"

\* C17: the worker task ends only when the command channel is disconnected
\* and empty; a command fails without changing the store, with the metrics
\* lock released and an Error event as its report; and once the report is
\* sent, or the send has failed, the worker is back at the head of its loop.
C17_Inv ==
    /\ w_pc = "stopped" => (~service_alive /\ cmd_queue = <<>>)
    /\ FailureReported => metrics_lock = "free"

C17_Step ==
    /\ (FailureReported' /\ ~FailureReported) => UNCHANGED stored_files
    /\ (FailureReported /\ w_pc' # w_pc) => w_pc' = "recv"

C17_NoFailureStopsWorker == []C17_Inv /\ [][C17_Step]_vars

C17_Witness ==
    /\ \E i \in 1..Len(events) : events[i].type = "Error" /\ events[i].by = 1
    /\ w_cmd # NoCommand
    /\ w_cmd.seq = 2
    /\ w_pc = "send_final"

\* what the call that holds event_rx has taken so far
HolderGot == IF rx_lock = NoHolder THEN <<>> ELSE dr[rx_lock].got

\* C13: the events the drain_events calls have returned, in the order of the
\* returns, then the events the call under way has taken, then the events
\* still in the channel, are exactly the events sent, in the order sent, each
\* once; a call never holds more than max events and never waits for a
\* producer; and it returns fewer than max only when it found the channel
\* empty.
C13_Inv ==
    /\ drained_log \o HolderGot \o events = ev_log.seq
    /\ \A i \in 1..Len(ev_log.seq) : \A j \in (i + 1)..Len(ev_log.seq) :
          ev_log.seq[i] # ev_log.seq[j]
    /\ \A d \in Drainers :
        /\ Len(dr[d].got) <= dr[d].max
        /\ (dr[d].pc # "loop" /\ rx_lock # d) => dr[d].got = <<>>
        /\ dr[d].pc = "loop" => ENABLED (DrainTryRecv(d) \/ DrainReturn(d))

C13_Step ==
    \A d \in Drainers :
        (dr[d].pc = "loop" /\ dr'[d].pc = "idle") =>
            /\ Len(dr[d].got) = dr[d].max \/ events = <<>>
            /\ drained_log' = drained_log \o dr[d].got
            /\ events' = events

C13_DrainTakesQueueHead == []C13_Inv /\ [][C13_Step]_vars

C13_Witness ==
    /\ dr[1].pc = "lock"
    /\ rx_lock = 2
    /\ Len(dr[2].got) = 1
    /\ dr[2].max = 2
    /\ events # <<>>

\* 0 <= x <= 1 for an f32 x
InUnit(x) == FLe(Num(0), x) /\ FLe(x, Num(10))

\* C18: every entry of the directory has 0 <= health_score <= 1, whatever
\* value was handed to register; register with 1.5 stores 1.0 and register
\* with -0.2 stores 0.0.
C18_HealthScoreInUnitInterval ==
    /\ \A p \in Registered(entries) : InUnit(entries[p].health_score)
    /\ (r_last.op = "register" /\ r_last.args.health_score = Num(15)) =>
          entries[r_last.peer_id].health_score = Num(10)
    /\ (r_last.op = "register" /\ r_last.args.health_score = Num(-2)) =>
          entries[r_last.peer_id].health_score = Num(0)

\* the step is a call of register
RegisterStep ==
    /\ r_last'.op = "register"
    /\ <<entries, r_last>>' # <<entries, r_last>>

\* C19: the directory holds each entry under its own peer_id; a call of
\* register raises the count by 1 for a new peer_id and leaves it unchanged
\* for a known one, puts the call's addrs, alias, health_score and the time
\* of the call in that entry and changes no other entry; the entry then
\* stays as registered, and get, contains and count report it, until a
\* register, remove, prune_stale or clear changes it.
C19_Inv ==
    /\ \A p \in Registered(entries) : entries[p].peer_id = p
    /\ r_last.op = "register" =>
        LET e == entries[r_last.peer_id] IN
            /\ e # NoRelay
            /\ e.addrs = r_last.args.addrs
            /\ e.alias = r_last.args.alias
            /\ e.last_seen <= clock
            /\ InUnit(r_last.args.health_score) =>
                  e.health_score = r_last.args.health_score
    /\ r_last.op = "get" => r_last.result = entries[r_last.peer_id]
    /\ r_last.op = "contains" =>
          r_last.result = (r_last.peer_id \in Registered(entries))
    /\ r_last.op = "count" => r_last.result = EntryCount(entries)

C19_Step ==
    /\ RegisterStep =>
        LET p == r_last'.peer_id IN
            /\ EntryCount(entries') =
                  EntryCount(entries) + (IF entries[p] = NoRelay THEN 1 ELSE 0)
            /\ r_last'.is_new = (entries[p] = NoRelay)
            /\ entries'[p].last_seen = clock
            /\ \A q \in Peers \ {p} : entries'[q] = entries[q]
    /\ \A p \in Registered(entries) :
          entries'[p] # entries[p] =>
              /\ r_last'.op \in {"register", "remove", "prune_stale", "clear"}
              /\ r_last'.op \in {"register", "remove"} => r_last'.peer_id = p

C19_RegisterIsUpsert == []C19_Inv /\ [][C19_Step]_vars

C19_Witness ==
    /\ r_last.op = "register"
    /\ ~r_last.is_new
    /\ r_last.args.alias = "medium"
    /\ entries[r_last.peer_id].last_seen = 1
    /\ EntryCount(entries) = 2

\* C20: what list returned holds every entry of the directory exactly once,
\* as many as count() reports, with health_score non-increasing along the
\* list; after registering scores 0.3, 0.9, 0.6 the order is 0.9, 0.6, 0.3.
C20_ListSortedByHealth ==
    r_last.op = "list" =>
        LET l == r_last.result IN
            /\ Len(l) = EntryCount(entries)
            /\ \A p \in Registered(entries) :
                  Cardinality({i \in 1..Len(l) : l[i] = entries[p]}) = 1
            /\ \A i \in 1..(Len(l) - 1) :
                  FLe(l[i + 1].health_score, l[i].health_score)
            /\ {l[i].health_score : i \in 1..Len(l)} = {Num(3), Num(9), Num(6)} =>
                  [i \in 1..Len(l) |-> l[i].health_score] = <<Num(9), Num(6), Num(3)>>

\* C21: entries of list() whose health_score ties or does not compare come in
\* a specified order: two runs that made the same register and remove calls
\* get the same list
C21_TiedOrderRepeatable ==
    r_last.op = "list" => r_last.result = r_last.twin

\* the age prune_stale computes: now - last_seen, 0 where that is negative
AgeAt(relay, now) == IF relay.last_seen >= now THEN 0 ELSE now - relay.last_seen

\* a prune_stale call was made in this step
PruneStep ==
    /\ r_last'.op = "prune_stale"
    /\ <<entries, r_last>>' # <<entries, r_last>>

C22_Step ==
    PruneStep =>
        LET now == r_last'.now
            max_age == r_last'.max_age_secs
            gone == {p \in Registered(entries) : AgeAt(entries[p], now) > max_age}
        IN  /\ \A p \in Peers :
                entries'[p] = IF p \in gone THEN NoRelay ELSE entries[p]
            /\ r_last'.result = Cardinality(gone)
            /\ \A p \in Registered(entries) :
                /\ AgeAt(entries[p], now) = max_age => entries'[p] = entries[p]
                /\ entries[p].last_seen > now => entries'[p] = entries[p]
                /\ (now = 10000 /\ max_age = 300 /\ entries[p].last_seen = 9000)
                      => entries'[p] = NoRelay
                /\ (now = 10000 /\ max_age = 300 /\ entries[p].last_seen = 9800)
                      => entries'[p] = entries[p]
            /\ (/\ now = 10000
                /\ max_age = 300
                /\ {entries[p].last_seen : p \in Registered(entries)} = {9000, 9800}
                /\ EntryCount(entries) = 2)
                  => r_last'.result = 1

\* C22: prune_stale(now, max_age_secs) removes exactly the entries whose
\* saturating age now - last_seen exceeds max_age_secs, leaves every other
\* entry as it was and returns how many it removed; an entry of age max_age_secs
\* or with last_seen after now stays, and with now 10000 and max_age 300 the
\* entry last seen at 9000 goes, the one seen at 9800 stays, and 1 is returned
C22_PruneRemovesExactlyStale == [][C22_Step]_vars

C22_Witness ==
    /\ r_last.op = "prune_stale"
    /\ r_last.now = 10000
    /\ r_last.max_age_secs = 300
    /\ r_last.result = 1
    /\ EntryCount(entries) = 1
    /\ \E p \in Registered(entries) : entries[p].last_seen = 9800

\* a remove call was made in this step
RemoveStep ==
    /\ r_last'.op = "remove"
    /\ <<entries, r_last>>' # <<entries, r_last>>

C23_Step ==
    RemoveStep =>
        LET peer_id == r_last'.peer_id
            existed == peer_id \in Registered(entries)
        IN  /\ r_last'.result = existed
            /\ existed =>
                /\ EntryCount(entries') = EntryCount(entries) - 1
                /\ Registered(entries') = Registered(entries) \ {peer_id}
            /\ ~existed => EntryCount(entries') = EntryCount(entries)
            /\ \A q \in Peers \ {peer_id} : entries'[q] = entries[q]
            /\ (r_last.op = "remove" /\ r_last.peer_id = peer_id)
                  => ~r_last'.result

\* C23: remove(peer_id) returns true exactly when peer_id had an entry, and
\* then count() drops by one and only that entry goes; otherwise it returns
\* false and changes nothing, so removing the same id again returns false
C23_RemoveReportsPresence == [][C23_Step]_vars

C23_Witness ==
    /\ r_last.op = "remove"
    /\ r_last.result
    /\ EntryCount(entries) = 2

\* what a call does to the entries and what it returns when it runs alone
SeqEntries(call, map) ==
    CASE call.op = "register" ->
            [map EXCEPT ![call.peer_id] =
                RelayInfo(call.peer_id, call.args.addrs, call.args.alias,
                          call.now, call.args.health_score)]
      [] call.op = "remove" -> [map EXCEPT ![call.peer_id] = NoRelay]
      [] call.op = "prune_stale" ->
            [p \in Peers |->
                IF map[p] # NoRelay /\ AgeAt(map[p], call.now) > call.max_age_secs
                THEN NoRelay ELSE map[p]]
      [] call.op = "clear" -> [p \in Peers |-> NoRelay]
      [] OTHER -> map

SeqResults(call, map) ==
    CASE call.op = "remove" -> {<<call.peer_id \in Registered(map)>>}
      [] call.op = "prune_stale" ->
            {<<EntryCount(map) - EntryCount(SeqEntries(call, map))>>}
      [] call.op = "list" -> {<<sort_by(relays)>> : relays \in ValueOrders(map)}
      [] call.op = "get" -> {<<map[call.peer_id]>>}
      [] call.op = "contains" -> {<<call.peer_id \in Registered(map)>>}
      [] call.op = "count" -> {<<EntryCount(map)>>}
      [] OTHER -> {<<>>}

\* C24: the registry's methods are safe to call at the same time: readers
\* may hold the lock together, a mutation holds it alone, a read never sees
\* a mutation half applied, and every call changes the entries and returns
\* as it would running alone on the entries the mutations before it left
C24_CallsAreAtomic ==
    /\ rw.writer # NoWriter => rw.readers = {}
    /\ \A c \in RelayCallers :
        /\ rw.writer = c <=> (rc[c].pc = "hold" /\ rc[c].call.op \in Writers)
        /\ c \in rw.readers <=> (rc[c].pc = "hold" /\ rc[c].call.op \in Readers)
    /\ rw.writer = NoWriter => entries = committed
    /\ r_last.op \in Readers => r_last.saw = r_last.left
    /\ r_last.op \in Writers \cup Readers =>
        /\ r_last.left = SeqEntries(r_last.call, r_last.saw)
        /\ r_last.result \in SeqResults(r_last.call, r_last.saw)

C24_Witness ==
    \E c \in RelayCallers, d \in RelayCallers :
        /\ rw.writer = c
        /\ rc[c].call.op = "prune_stale"
        /\ rc[c].todo # {}
        /\ EntryCount(entries) < rc[c].before_count
        /\ \E p \in rc[c].todo :
              is_stale(entries[p], rc[c].call.now, rc[c].call.max_age_secs)
        /\ rc[d].pc = "wait"
        /\ rc[d].call.op \in Readers

\* where the worker is suspended in a sleep, in file I/O or in an event send
SuspensionPoints == {"dl_sleep", "dl_write", "up_read", "emit_send", "send_final"}

\* C25: the worker holds neither the store lock nor the metrics lock while it
\* sleeps for backoff, writes the destination, reads the upload source or
\* waits to send an event; the lookup's store lock is given back before the
\* write begins, so store_file_data and download_metrics_snapshot can run
\* while a download is at any of these points
C25_NoLockAcrossSuspension ==
    w_pc \in SuspensionPoints =>
        /\ store_lock # "worker"
        /\ metrics_lock # "worker"
        /\ service_alive =>
            /\ ENABLED StoreFileData
            /\ ENABLED DownloadMetricsSnapshot

C25_Witness ==
    /\ w_pc = "dl_write"
    /\ w_cmd.kind = "DownloadFile"
    /\ w_data # NoFile
    /\ store_lock = "free"
    /\ service_alive

\* the last event sent is the snapshot of attempt k of the invocation under way
LastEmitted(k) ==
    /\ ev_log.seq # <<>>
    /\ ev_log.seq[Len(ev_log.seq)] =
          OfCommand(DownloadAttempt(inv.snaps[k]), w_cmd.seq)

\* C26: the attempts of one download invocation come one after the other
\* with the backoff between them: nothing is slept before attempt 1, and
\* before the lookup of an attempt n > 1 the worker has sent the snapshot of
\* attempt n-1 and then slept backoff_delay(n); attempt n starts only when
\* attempt n-1 is over
C26_AttemptsSequentialWithBackoff ==
    inv.active =>
        /\ \A i \in 1..Len(inv.snaps) : inv.snaps[i].attempt = i
        /\ \A i \in 1..Len(inv.slept) :
              inv.slept[i] = backoff_delay(U32(i + 1)).ms
        /\ Len(inv.snaps) \in {attempt - 1, attempt}
        /\ w_pc = "dl_sleep" =>
            /\ attempt > 1
            /\ Len(inv.slept) = attempt - 2
            /\ Len(inv.snaps) = attempt - 1
            /\ LastEmitted(attempt - 1)
        /\ w_pc \in {"dl_lookup", "dl_write"} =>
            /\ Len(inv.slept) = attempt - 1
            /\ Len(inv.snaps) = attempt - 1
            /\ attempt > 1 => LastEmitted(attempt - 1)

C26_Witness ==
    /\ inv.active
    /\ w_pc = "dl_lookup"
    /\ attempt = 3
    /\ Len(inv.slept) = 2
    /\ LastEmitted(2)

\* a character of an address: neither a separator nor white space
IsLetter(ch) == ch \notin {" ", ","}
Letters(s) == SelectSeq(s, IsLetter)

RECURSIVE Concat(_)
Concat(seqs) == IF seqs = <<>> THEN <<>> ELSE Head(seqs) \o Concat(Tail(seqs))

\* the places of s where an entry begins: a letter with only white space
\* between it and the separator (or the start) before it
EntryStarts(s) ==
    {i \in 1..Len(s) :
        /\ IsLetter(s[i])
        /\ \A j \in 1..(i - 1) :
              IsLetter(s[j]) => \E k \in (j + 1)..(i - 1) : s[k] = ","}

\* C27: get_bootstrap_nodes never returns an empty list; where
\* BOOTSTRAP_NODES holds an entry that is not blank it returns exactly the
\* trimmed, non-empty entries in order; otherwise the addresses of the
\* packaged file if it parses and has nodes; otherwise the 3 hardcoded ones
C27_BootstrapThreeTiers ==
    bs.called =>
        /\ bs.out # <<>>
        /\ IF bs.env.set /\ \E i \in 1..Len(bs.env.value) : IsLetter(bs.env.value[i])
           THEN /\ Len(bs.out) = Cardinality(EntryStarts(bs.env.value))
                /\ Letters(Concat(bs.out)) = Letters(bs.env.value)
                /\ \A k \in 1..Len(bs.out) :
                    /\ bs.out[k] # <<>>
                    /\ IsLetter(bs.out[k][1])
                    /\ IsLetter(bs.out[k][Len(bs.out[k])])
                    /\ \A i \in 1..Len(bs.out[k]) : bs.out[k][i] # ","
                    /\ \E i \in 1..Len(bs.env.value), j \in 1..Len(bs.env.value) :
                          SubSeq(bs.env.value, i, j) = bs.out[k]
           ELSE IF bs.file.ok /\ bs.file.nodes # <<>>
           THEN /\ Len(bs.out) = Len(bs.file.nodes)
                /\ \A k \in 1..Len(bs.out) : bs.out[k] = bs.file.nodes[k].multiaddr
           ELSE /\ bs.out = get_hardcoded_bootstrap_nodes
                /\ Len(bs.out) = 3

C27_Witness ==
    /\ bs.called
    /\ bs.env.set
    /\ Len(bs.out) = 2
    /\ \E i \in 1..Len(bs.env.value) : bs.env.value[i] = " "
    /\ bs.file.ok
    /\ bs.file.nodes # <<>>

\* the DownloadAttempt events among evs
IsAttemptEvent(ev) == ev.type = "DownloadAttempt"
AttemptEvents(evs) == SelectSeq(evs, IsAttemptEvent)

\* the calls of record_attempt the three counters stand for
Counted ==
    metrics.total_success[4] + metrics.total_failures[4] + metrics.total_retries[4]

\* C28: a snapshot is recorded in the metrics once, and before it is offered
\* to the event queue.  With nothing drained the queue holds every event ever
\* enqueued: its DownloadAttempt events are the first records, in order; the
\* counters stand for exactly the records made, one for each attempt of each
\* download (here each download makes 3); and a send that waits or fails
\* leaves the record of its snapshot in place, made once
C28_RecordedOnceBeforeOffered ==
    LET sent == AttemptEvents(events) IN
        /\ Len(sent) <= Len(rec_log)
        /\ \A i \in 1..Len(sent) : sent[i].snapshot = rec_log[i]
        /\ service_alive => Len(rec_log) - Len(sent) <= 1
        /\ Counted = Len(rec_log)
        /\ \A i \in 1..Len(rec_log) :
              rec_log[i].attempt = ((i - 1) % MAX_DOWNLOAD_ATTEMPTS) + 1
        /\ w_pc = "emit_send" =>
            /\ rec_log # <<>>
            /\ rec_log[Len(rec_log)] = cur_snap
            /\ metrics.recent_attempts[1] = cur_snap
            /\ Len(sent) = Len(rec_log) - 1 \/ ~service_alive

C28_Witness ==
    /\ w_pc = "emit_send"
    /\ service_alive
    /\ Len(events) = EVENT_CAPACITY
    /\ Len(rec_log) = Len(AttemptEvents(events)) + 1

\* event i of the log and the one before it
EventAt(i) == ev_log.seq[i]
EventBefore(i) == IF i > 1 THEN ev_log.seq[i - 1] ELSE OfCommand(NoEvent, 0)

\* ev is the snapshot of an attempt of command c with this status
AttemptOf(ev, c, statuses) ==
    /\ ev.type = "DownloadAttempt"
    /\ ev.by = c
    /\ ev.snapshot.status \in statuses

C29_Inv ==
    \A i \in 1..Len(ev_log.seq) :
        LET e == EventAt(i)
            prev == EventBefore(i)
        IN  /\ e.type \in {"FileUploaded", "FileDownloaded", "Error", "DownloadAttempt"}
            /\ e.type = "DownloadAttempt" =>
                  IF e.snapshot.attempt = 1
                  THEN prev.type # "DownloadAttempt" /\ prev.by < e.by
                  ELSE /\ AttemptOf(prev, e.by, {"Retrying"})
                       /\ prev.snapshot.attempt = e.snapshot.attempt - 1
            /\ e.type = "FileDownloaded" => AttemptOf(prev, e.by, {"Success"})
            /\ (e.type = "Error" /\ e.message[1] = "Download failed") =>
                  AttemptOf(prev, e.by, {"Failed"})
            /\ prev.type = "DownloadAttempt" =>
                /\ e.by = prev.by
                /\ prev.snapshot.status = "Retrying" => e.type = "DownloadAttempt"
                /\ prev.snapshot.status = "Success" => e.type = "FileDownloaded"
                /\ prev.snapshot.status = "Failed" =>
                      e.type = "Error" /\ e.message[1] = "Download failed"

\* the worker builds the closing event of a download
C29_Step ==
    (w_pc = "dl_ret" /\ w_pc' = "send_final") =>
        LET k == Len(inv.snaps) IN
            /\ k >= 1
            /\ w_final' =
                  IF inv.snaps[k].status = "Success" THEN FileDownloaded
                  ELSE ErrorEvent("Download failed", inv.results[k])
            /\ (inv.absent /\ stored_files[inv.file_hash] = NoEntry) =>
                  w_final' = ErrorEvent("Download failed", NOT_FOUND)

\* C29: with every event send succeeding, the events of a DownloadFile
\* command are the DownloadAttempt events of its attempts 1..k in order and
\* then one closing event: FileDownloaded if and only if the last attempt's
\* status is Success, otherwise Error with the last error; a download of a
\* hash the store does not hold ends in Error, and no FileNotFound is emitted
C29_DownloadEventSequence == []C29_Inv /\ [][C29_Step]_vars

C29_Witness ==
    LET n == Len(ev_log.seq) IN
        /\ n >= 4
        /\ EventAt(n).type = "FileDownloaded"
        /\ AttemptOf(EventAt(n - 1), EventAt(n).by, {"Success"})
        /\ EventAt(n - 1).snapshot.attempt = 2
        /\ AttemptOf(EventAt(n - 2), EventAt(n).by, {"Retrying"})
        /\ w_pc = "recv"

\* the commands sent after the backlog
LiveCommands == (LiveBacklog + 1)..(LiveBacklog + MaxLiveCommands)

\* the worker is through with command n, and the closing event of command n
\* was enqueued
Done(n) == Received > n \/ (Received = n /\ w_pc = "recv")
Closing(n) ==
    \E i \in 1..Len(ev_log.seq) :
        /\ ev_log.seq[i].by = n
        /\ ev_log.seq[i].type \in {"FileUploaded", "FileDownloaded", "Error"}

C30_Inv ==
    /\ attempt <= MAX_DOWNLOAD_ATTEMPTS
    /\ inv.active => Len(inv.snaps) <= MAX_DOWNLOAD_ATTEMPTS
    /\ (w_pc # "recv" \/ cmd_queue # <<>>) =>
          (ENABLED WorkerStep) \/ (ENABLED LiveDrainSome)

\* C30: with the worker task scheduled fairly and a consumer that keeps
\* calling drain_events, every download invocation ends, after at most 3
\* attempts, every command accepted into the command queue is processed to
\* its end and its closing event is enqueued, and while a command is left the
\* worker or the consumer can take a step
C30_PipelineLive ==
    /\ []C30_Inv
    /\ inv.active ~> ~inv.active
    /\ \A n \in LiveCommands : (submitted >= n) ~> (Done(n) /\ Closing(n))

C30_Witness ==
    /\ Done(LiveBacklog + 1)
    /\ Closing(LiveBacklog + 1)
    /\ Len(ev_log.seq) > EVENT_CAPACITY
    /\ \E i \in 1..Len(ev_log.seq) :
          ev_log.seq[i].type = "DownloadAttempt" /\ ev_log.seq[i].by > LiveBacklog

====
